---- MODULE Spec2Model ----
(***************************************************************************)
(* Tachyon IR (source/ir/instructions.js) and the x86 emission driver.     *)
(*                                                                         *)
(* Three state machines share this module:                                 *)
(*   SpecIR    the use/def graph of instructions and phi nodes             *)
(*   SpecConst the constant uniquing table                                 *)
(*   SpecEmit  x86.irToASM and the execution of the stream it emits        *)
(***************************************************************************)
EXTENDS Integers, Sequences, FiniteSets, TLC

\* ------------------------------------------------------------------------
\* Bounds of the model
\* ------------------------------------------------------------------------

\* number of instruction objects that may be constructed
MaxInstr == 2
\* longest use list of a phi node
MaxUses == 2
\* number of basic blocks of a function
NumBlocks == 2
\* number of constructor and method calls made on the use/def graph
MaxCalls == 4
\* number of ConstValue.getConst calls
MaxGets == 3
\* number of instructions of a block before its terminator
MaxBody == 2
\* number of abstract moves in the allocation plan's lists
MaxMoves == 2
\* number of callee-save registers of the calling convention
MaxSave == 2

\* the longest well-ordered argument list of a constructor call
MaxArgs == 4

\* the longest argument list in arbitrary order
MaxMixed == 3

\* ------------------------------------------------------------------------
\* Helpers on sequences
\* ------------------------------------------------------------------------

Range(s) == {s[k] : k \in 1..Len(s)}

RECURSIVE Flatten(_)
Flatten(ss) == IF ss = <<>> THEN <<>> ELSE Head(ss) \o Flatten(Tail(ss))

SeqsUpTo(S, n) == UNION {[1..k -> S] : k \in 0..n}

\* ------------------------------------------------------------------------
\* IR types
\* ------------------------------------------------------------------------

PLATFORM_PTR_SIZE == 8

IRType ==
    {"none", "box", "rptr", "u8", "u16", "u32", "u64",
     "i8", "i16", "i32", "i64", "f64"}

pint == IF PLATFORM_PTR_SIZE = 4 THEN "i32" ELSE "i64"

isIntType(t) == t \in {"u8", "u16", "u32", "u64", "i8", "i16", "i32", "i64"}

isFPType(t) == t = "f64"

isNumberType(t) == isIntType(t) \/ isFPType(t)

\* ------------------------------------------------------------------------
\* The use/def graph: instructions 1..nInstr, each with its fields
\* ------------------------------------------------------------------------

VARIABLES
    instr,      \* id -> [kind, uses, preds, dests, type] of each instruction
    nInstr,     \* number of instructions constructed so far
    nCalls      \* number of calls made so far

irVars == <<instr, nInstr, nCalls>>

VARIABLES
    constMap,   \* ConstValue.constMap: value -> (type -> constant object)
    constHeap,  \* the ConstValue objects created so far, by identity
    getCalls    \* the getConst calls made so far: arguments and result

constVars == <<constMap, constHeap, getCalls>>

VARIABLES
    term,        \* irFunc: block -> its terminator [kind, targets]
    body,        \* irFunc: the instructions each block holds before its terminator
    ifOp,        \* irFunc: the testOp of the if instructions
    preMv,       \* allocInfo.instrMap: the preMoves of each instruction
    mergeMv,     \* allocInfo.mergeMoves: the moves of each CFG edge
    spillSize,   \* allocInfo.stackMap.spillSize
    calleeSave,  \* callConv.calleeSave
    asm,         \* the assembler's instruction stream
    emitState,   \* "init" before irToASM, then "done" or "aborted"
    ip,          \* position of the emitted stream being executed, 0 before
    lastGen,     \* the instruction whose code was executed last
    pending      \* the edge whose merge moves ran and whose block has not started

funcVars == <<term, body, ifOp>>

planVars == <<preMv, mergeMv, spillSize, calleeSave>>

runVars == <<ip, lastGen, pending>>

emitVars == <<funcVars, planVars, asm, emitState, runVars>>

VARIABLES
    made        \* the last call of an instruction constructor and its outcome

makeVars == <<made>>

VARIABLES
    codegen     \* one instruction, the code generated for it and its execution

genVars == <<codegen>>

VARIABLES
    objs,       \* the instruction objects constructed, in the order constructed
    shared,     \* prototype object -> the arrays of that prototype object
    arrays,     \* the arrays the instruction objects have made, in the order made
    nOps,       \* number of calls made on the instruction objects so far
    call        \* the call in progress, or the call that ended last

objVars == <<objs, shared, arrays, nOps, call>>

vars == <<irVars, constVars, emitVars, makeVars, genVars, objVars>>

InstrIds == 1..MaxInstr

BlockIds == 1..NumBlocks

\* an IR value: an instruction (by id) or a constant of a fixed type
InstrVal(i) == [isInstr |-> TRUE, id |-> i, ctype |-> "none"]

ConstVal(t) == [isInstr |-> FALSE, id |-> 0, ctype |-> t]

\* the constants used as inputs: one boxed, one of type pint
InputConsts == {ConstVal("box"), ConstVal(pint)}

\* the IRInstr fields before a constructor has run: the prototype's
NoInstr ==
    [kind |-> "", uses |-> <<>>, preds |-> <<>>, dests |-> <<>>, type |-> "box"]

Live == 1..nInstr

LiveVals == {InstrVal(i) : i \in Live} \cup InputConsts

\* value.type
TypeOf(I, v) == IF v.isInstr THEN I[v.id].type ELSE v.ctype

\* arraySetAdd(array, val): append unless present
arraySetAdd(arr, val) == IF val \in Range(arr) THEN arr ELSE Append(arr, val)

\* arraySetRem(array, val): remove when present
arraySetRem(arr, val) == SelectSeq(arr, LAMBDA x : x # val)

\* IRInstr.prototype.addDest
addDest(I, i, dest) ==
    [I EXCEPT ![i].dests =
        IF Len(I[i].dests) = 0 THEN <<dest>> ELSE arraySetAdd(I[i].dests, dest)]

\* IRInstr.prototype.remDest
remDest(I, i, dest) == [I EXCEPT ![i].dests = arraySetRem(I[i].dests, dest)]

\* IRInstr.prototype.replUse
replUse(I, i, oldUse, newUse) ==
    [I EXCEPT ![i].uses =
        [k \in 1..Len(I[i].uses) |->
            IF I[i].uses[k] = oldUse THEN newUse ELSE I[i].uses[k]]]

\* the assertions of the PhiInstr constructor
PhiInstrOk(I, values, preds) ==
    /\ Len(values) = Len(preds)
    /\ \A k \in 2..Len(values) : TypeOf(I, values[k]) = TypeOf(I, values[k-1])

\* function PhiInstr(values, preds)
PhiInstr(I, values, preds) ==
    [kind  |-> "phi",
     uses  |-> values,
     preds |-> preds,
     dests |-> <<>>,
     type  |-> IF Len(values) > 0 THEN TypeOf(I, values[1]) ELSE "none"]

\* mutant: a value of any type is accepted
addIncomingOk_anyType(I, p, value) == TRUE

\* the assertions of PhiInstr.prototype.addIncoming
addIncomingOk(I, p, value) ==
    Len(I[p].uses) > 0 => TypeOf(I, value) = TypeOf(I, I[p].uses[1])

\* mutant: the phi registers itself but the use is not appended
addIncoming_noUse(I, p, value, pred) ==
    IF value.isInstr THEN addDest(I, value.id, p) ELSE I

\* PhiInstr.prototype.addIncoming
addIncoming(I, p, value, pred) ==
    LET J == [I EXCEPT
                ![p].type  = IF Len(I[p].uses) > 0 THEN @ ELSE TypeOf(I, value),
                ![p].uses  = Append(@, value),
                ![p].preds = Append(@, pred)]
    IN  IF value.isInstr THEN addDest(J, value.id, p) ELSE J

\* PhiInstr.prototype.replPred: the first slot holding oldPred
replPredOk(I, p, oldPred) == oldPred \in Range(I[p].preds)

replPred(I, p, oldPred, newPred) ==
    LET k == CHOOSE k \in 1..Len(I[p].preds) :
                /\ I[p].preds[k] = oldPred
                /\ \A j \in 1..(k-1) : I[p].preds[j] # oldPred
    IN  [I EXCEPT ![p].preds[k] = newPred]

\* the initFunc of AddInstr
AddInitOk(I, inputVals) ==
    /\ Len(inputVals) = 2
    /\ \/ TypeOf(I, inputVals[1]) = "rptr" /\ TypeOf(I, inputVals[2]) = pint
       \/ /\ TypeOf(I, inputVals[1]) = "box" \/ isNumberType(TypeOf(I, inputVals[1]))
          /\ TypeOf(I, inputVals[2]) = TypeOf(I, inputVals[1])

\* InstrConstr of instrMaker('add', ...): uses are stored, dests are the
\* prototype's empty list
AddInstr(I, inputVals) ==
    [kind  |-> "add",
     uses  |-> inputVals,
     preds |-> <<>>,
     dests |-> <<>>,
     type  |-> TypeOf(I, inputVals[1])]

InitIR ==
    /\ instr = [i \in InstrIds |-> NoInstr]
    /\ nInstr = 0
    /\ nCalls = 0

\* one more call is made
Call == nCalls < MaxCalls /\ nCalls' = nCalls + 1

\* new PhiInstr(values, preds)
NewPhi ==
    /\ Call
    /\ nInstr < MaxInstr
    /\ \E values \in SeqsUpTo(LiveVals, MaxUses) :
       \E preds \in [1..Len(values) -> BlockIds] :
          /\ PhiInstrOk(instr, values, preds)
          /\ instr' = [instr EXCEPT ![nInstr + 1] = PhiInstr(instr, values, preds)]
    /\ nInstr' = nInstr + 1
    /\ UNCHANGED <<constVars, emitVars, makeVars, genVars, objVars>>

\* new AddInstr(a, b)
NewAdd ==
    /\ Call
    /\ nInstr < MaxInstr
    /\ \E inputVals \in [1..2 -> LiveVals] :
          /\ AddInitOk(instr, inputVals)
          /\ instr' = [instr EXCEPT ![nInstr + 1] = AddInstr(instr, inputVals)]
    /\ nInstr' = nInstr + 1
    /\ UNCHANGED <<constVars, emitVars, makeVars, genVars, objVars>>

\* p.addIncoming(value, pred)
AddIncoming ==
    \E p \in Live, value \in LiveVals, pred \in BlockIds :
        /\ Call
        /\ instr[p].kind = "phi"
        /\ Len(instr[p].uses) < MaxUses
        /\ addIncomingOk(instr, p, value)
        /\ instr' = addIncoming(instr, p, value, pred)
        /\ UNCHANGED <<nInstr, constVars, emitVars, makeVars, genVars, objVars>>

\* p.replPred(oldPred, newPred)
ReplPred ==
    \E p \in Live, oldPred \in BlockIds, newPred \in BlockIds :
        /\ Call
        /\ instr[p].kind = "phi"
        /\ replPredOk(instr, p, oldPred)
        /\ instr' = replPred(instr, p, oldPred, newPred)
        /\ UNCHANGED <<nInstr, constVars, emitVars, makeVars, genVars, objVars>>

\* i.replUse(oldUse, newUse)
ReplUse ==
    \E i \in Live, oldUse \in LiveVals, newUse \in LiveVals :
        /\ Call
        /\ instr' = replUse(instr, i, oldUse, newUse)
        /\ UNCHANGED <<nInstr, constVars, emitVars, makeVars, genVars, objVars>>

\* i.addDest(dest)
AddDest ==
    \E i \in Live, dest \in Live :
        /\ Call
        /\ instr' = addDest(instr, i, dest)
        /\ UNCHANGED <<nInstr, constVars, emitVars, makeVars, genVars, objVars>>

\* i.remDest(dest)
RemDest ==
    \E i \in Live, dest \in Live :
        /\ Call
        /\ instr' = remDest(instr, i, dest)
        /\ UNCHANGED <<nInstr, constVars, emitVars, makeVars, genVars, objVars>>

\* ------------------------------------------------------------------------
\* Constant uniquing
\* ------------------------------------------------------------------------

\* JavaScript literals: whole and fractional numbers, a string
Literal(kind, whole, text) == [kind |-> kind, whole |-> whole, text |-> text]

Literals ==
    {Literal("number", TRUE, "0"), Literal("number", TRUE, "1"),
     Literal("number", FALSE, "1.5"), Literal("string", FALSE, "a")}

\* the type argument of getConst: a type or left out
TypeArgs == {"undefined", "box", "i32", "f64"}

\* the assertions of the ConstValue constructor
ConstValueOk(value, type) ==
    /\ ~isIntType(type) \/ (value.kind = "number" /\ value.whole)
    /\ ~isFPType(type) \/ value.kind = "number"
    /\ type = "box" \/ value.kind # "string"

\* HashMap.hasItem
hasItem(map, key) == key \in DOMAIN map

\* HashMap.addItem
addItem(map, key, item) ==
    [k \in DOMAIN map \cup {key} |-> IF k = key THEN item ELSE map[k]]

EmptyMap == [k \in {} |-> 0]

\* mutant: the table is keyed by the value alone
getConst_byValue(M, H, value, typeArg) ==
    LET type == IF typeArg = "undefined" THEN "box" ELSE typeArg
    IN  IF hasItem(M, value) /\ DOMAIN M[value] # {}
        THEN [map |-> M, heap |-> H,
              ret |-> M[value][CHOOSE t \in DOMAIN M[value] : TRUE]]
        ELSE IF ConstValueOk(value, type)
        THEN [map  |-> addItem(M, value, addItem(EmptyMap, type, Len(H) + 1)),
              heap |-> Append(H, [value |-> value, type |-> type]),
              ret  |-> Len(H) + 1]
        ELSE [map |-> addItem(M, value, EmptyMap), heap |-> H, ret |-> 0]

\* ConstValue.getConst(value, type): the table and heap afterwards and the
\* constant returned (0 when the ConstValue constructor throws)
getConst(M, H, value, typeArg) ==
    LET type    == IF typeArg = "undefined" THEN "box" ELSE typeArg
        M1      == IF ~hasItem(M, value) THEN addItem(M, value, EmptyMap) ELSE M
        typeMap == M1[value]
    IN  IF ~hasItem(typeMap, type)
        THEN IF ConstValueOk(value, type)
             THEN [map  |-> addItem(M1, value, addItem(typeMap, type, Len(H) + 1)),
                   heap |-> Append(H, [value |-> value, type |-> type]),
                   ret  |-> Len(H) + 1]
             ELSE [map |-> M1, heap |-> H, ret |-> 0]
        ELSE [map |-> M1, heap |-> H, ret |-> typeMap[type]]

InitConst ==
    /\ constMap = EmptyMap
    /\ constHeap = <<>>
    /\ getCalls = <<>>

\* ConstValue.getConst(value, typeArg)
GetConst ==
    /\ Len(getCalls) < MaxGets
    /\ \E value \in Literals, typeArg \in TypeArgs :
          LET r == getConst(constMap, constHeap, value, typeArg)
          IN  /\ constMap' = r.map
              /\ constHeap' = r.heap
              /\ getCalls' = Append(getCalls,
                    [value |-> value, typeArg |-> typeArg, ret |-> r.ret])
    /\ UNCHANGED <<irVars, emitVars, makeVars, genVars, objVars>>

\* ------------------------------------------------------------------------
\* x86 operands, labels and the assembler's stream
\* ------------------------------------------------------------------------

\* backend.regSizeBits of the 64-bit backend
regSizeBits == PLATFORM_PTR_SIZE * 8

\* backend.spReg
spReg == "rsp"

\* x86 operands: registers, memory locations (asm.mem), immediates
Reg(r) == [k |-> "reg", r |-> r, n |-> 0, bits |-> 0]

Mem(base, offset) == [k |-> "mem", r |-> base, n |-> offset, bits |-> 0]

Imm(n) == [k |-> "imm", r |-> "", n |-> n, bits |-> 0]

NoOpnd == [k |-> "none", r |-> "", n |-> 0, bits |-> 0]

\* the source of an abstract move that is a ConstValue of immediate value n;
\* bits is what x86.getImmSize gives for it, 0 when it gives undefined
Const(n, bits) == [k |-> "const", r |-> "", n |-> n, bits |-> bits]

\* x86.Label objects: one per block, one per CFG edge
BlockLabel(b) == [k |-> "block", p |-> 0, s |-> b]

EdgeLabel(p, s) == [k |-> "edge", p |-> p, s |-> s]

NoLabel == [k |-> "none", p |-> 0, s |-> 0]

\* the place of irToASM that emitted an item: part is "prologue", "label",
\* "premove", "gen", "stub" or "merge"; a, b name the instruction (block,
\* index) or the edge (pred, succ); k is the index in the move list
By(part, a, b, k) == [part |-> part, a |-> a, b |-> b, k |-> k]

\* one call of the assembler: asm.<op>(dst, src) or asm.<op>(lbl)
Item(op, dst, src, lbl, by) ==
    [op |-> op, dst |-> dst, src |-> src, lbl |-> lbl, by |-> by]

\* an assertion that fails or an error that is thrown: emission stops here
Abort(by) == Item("abort", NoOpnd, NoOpnd, NoLabel, by)

\* ------------------------------------------------------------------------
\* The function being compiled and its allocation plan
\* ------------------------------------------------------------------------

\* blockOrder: every block once
blockOrder == [i \in 1..NumBlocks |-> i]

\* instructions for which irToASM generates no code
PseudoKinds == {"arg", "get_num_args", "get_arg_table", "phi"}

\* block.instrs: the body and then the terminator
Instrs(T, B, b) == Append(B, T[b].kind)

\* the entries of a list, each once, in the order of first occurrence
RECURSIVE Dedupe(_)
Dedupe(s) ==
    IF s = <<>> THEN <<>>
    ELSE LET d == Dedupe(SubSeq(s, 1, Len(s) - 1))
         IN  IF s[Len(s)] \in Range(d) THEN d ELSE Append(d, s[Len(s)])

\* block.succs: the targets of the final instruction
Succs(T, b) == Dedupe(T[b].targets)

\* block.preds: the blocks that have b among their successors
Preds(T, b) ==
    SelectSeq(blockOrder, LAMBDA p : b \in Range(Succs(T, p)))

Edges(T) == {e \in BlockIds \X BlockIds : e[2] \in Range(Succs(T, e[1]))}

\* stackMap.getLocOffset(stackMap.getStackLoc(reg)) of the k-th callee-save
\* register
SaveOffset(k) == (k - 1) * PLATFORM_PTR_SIZE

\* the operands the plan gives an instruction (instrAlloc.opnds)
Opnds == <<Reg("rax"), Reg("rcx")>>

\* ------------------------------------------------------------------------
\* x86.insertMove
\* ------------------------------------------------------------------------

\* mutant: the memory to memory assertion is left out
insertMove_noAssert(move, by) ==
    IF move.src.k \in {"reg", "mem"}
    THEN <<Item("mov", move.dst, move.src, NoLabel, by)>>
    ELSE IF move.src.k = "const" /\ move.src.bits # 0 /\ move.src.bits <= regSizeBits
    THEN <<Item("mov", move.dst, Imm(move.src.n), NoLabel, by)>>
    ELSE <<Item("nop", NoOpnd, NoOpnd, NoLabel, by)>>

insertMove(move, by) ==
    IF move.src.k \in {"reg", "mem"}
    THEN IF move.src.k = "mem" /\ move.dst.k = "mem"
         THEN <<Abort(by)>>
         ELSE <<Item("mov", move.dst, move.src, NoLabel, by)>>
    ELSE IF move.src.k = "const" /\ move.src.bits # 0 /\ move.src.bits <= regSizeBits
    THEN <<Item("mov", move.dst, Imm(move.src.n), NoLabel, by)>>
    ELSE <<Item("nop", NoOpnd, NoOpnd, NoLabel, by)>>

\* a list of abstract moves, lowered in order
insertMoves(moves, part, a, b) ==
    Flatten([k \in 1..Len(moves) |-> insertMove(moves[k], By(part, a, b, k))])

\* ------------------------------------------------------------------------
\* x86.insertEdgeTrans
\* ------------------------------------------------------------------------

\* mutant: the jump to the successor comes before the moves
insertEdgeTrans_jumpFirst(pred, succ, moves) ==
    <<Item("label", NoOpnd, NoOpnd, EdgeLabel(pred, succ), By("stub", pred, succ, 0)),
      Item("jmp", NoOpnd, NoOpnd, BlockLabel(succ), By("stub", pred, succ, 0))>>
    \o insertMoves(moves, "merge", pred, succ)

insertEdgeTrans(pred, succ, moves) ==
    <<Item("label", NoOpnd, NoOpnd, EdgeLabel(pred, succ), By("stub", pred, succ, 0))>>
    \o insertMoves(moves, "merge", pred, succ)
    \o <<Item("jmp", NoOpnd, NoOpnd, BlockLabel(succ), By("stub", pred, succ, 0))>>

\* ------------------------------------------------------------------------
\* genCode of the instruction kinds
\* ------------------------------------------------------------------------

\* AddInstr.prototype.x86.genCode
genAdd(opnds, by) == <<Item("add", opnds[1], opnds[2], NoLabel, by)>>

\* JumpInstr.prototype.x86.genCode
genJump(b, targets, by) ==
    <<Item("jmp", NoOpnd, NoOpnd, EdgeLabel(b, targets[1]), by)>>

\* genCmp of IfInstr.prototype.x86.genCode
genCmp(jmpTrueSgn, jmpTrue, invSens, opnds, signed, trueLabel, falseLabel, by) ==
    LET swap == opnds[1].k = "imm" /\ invSens
        tl   == IF swap THEN falseLabel ELSE trueLabel
        fl   == IF swap THEN trueLabel ELSE falseLabel
    IN  <<IF opnds[1].k = "imm"
          THEN Item("cmp", opnds[2], opnds[1], NoLabel, by)
          ELSE Item("cmp", opnds[1], opnds[2], NoLabel, by),
          Item(IF signed THEN jmpTrueSgn ELSE jmpTrue, NoOpnd, NoOpnd, tl, by),
          Item("jmp", NoOpnd, NoOpnd, fl, by)>>

\* IfInstr.prototype.x86.genCode
genIf(b, targets, testOp, opnds, signed, by) ==
    LET trueLabel  == EdgeLabel(b, targets[1])
        falseLabel == EdgeLabel(b, targets[2])
    IN  CASE testOp = "LT" ->
               genCmp("jl", "jb", TRUE, opnds, signed, trueLabel, falseLabel, by)
          [] testOp = "EQ" ->
               genCmp("je", "je", FALSE, opnds, signed, trueLabel, falseLabel, by)
          [] testOp = "NE" ->
               genCmp("jne", "jne", FALSE, opnds, signed, trueLabel, falseLabel, by)
          [] OTHER -> <<Abort(by)>>

\* mutant: the stack pointer is restored before the registers are reloaded
genRet_addFirst(spill, save, by) ==
    (IF spill # 0 THEN <<Item("add", Reg(spReg), Imm(spill), NoLabel, by)>> ELSE <<>>)
    \o [k \in 1..Len(save) |->
          Item("mov", Reg(save[k]), Mem(spReg, SaveOffset(k)), NoLabel, by)]
    \o <<Item("ret", NoOpnd, NoOpnd, NoLabel, by)>>

\* RetInstr.prototype.x86.genCode
genRet(spill, save, by) ==
    [k \in 1..Len(save) |->
        Item("mov", Reg(save[k]), Mem(spReg, SaveOffset(k)), NoLabel, by)]
    \o (IF spill # 0 THEN <<Item("add", Reg(spReg), Imm(spill), NoLabel, by)>> ELSE <<>>)
    \o <<Item("ret", NoOpnd, NoOpnd, NoLabel, by)>>

\* instr.x86.genCode for the instruction at index j of block b; kinds
\* without a genCode method fail the assertion
genCode(T, kind, b, j, testOp, spill, save) ==
    LET by == By("gen", b, j, 0)
    IN  CASE kind = "add"  -> genAdd(Opnds, by)
          [] kind = "jump" -> genJump(b, T[b].targets, by)
          [] kind = "if"   -> genIf(b, T[b].targets, testOp, Opnds, TRUE, by)
          [] kind = "ret"  -> genRet(spill, save, by)
          [] OTHER         -> <<Abort(by)>>

\* ------------------------------------------------------------------------
\* x86.irToASM
\* ------------------------------------------------------------------------

\* the spill space and the callee-save stores
Prologue(spill, save) ==
    (IF spill # 0
     THEN <<Item("sub", Reg(spReg), Imm(spill), NoLabel, By("prologue", 0, 0, 0))>>
     ELSE <<>>)
    \o [k \in 1..Len(save) |->
          Item("mov", Mem(spReg, SaveOffset(k)), Reg(save[k]), NoLabel,
               By("prologue", 0, 0, k))]

\* the stubs of the edges into b whose source has several successors
InlineStubs(T, b, mm) ==
    Flatten([k \in 1..Len(Preds(T, b)) |->
        LET pred == Preds(T, b)[k]
        IN  IF Len(Succs(T, pred)) = 1 THEN <<>>
            ELSE insertEdgeTrans(pred, b, mm)])

\* one instruction of a block: nothing for a pseudo-instruction, else the
\* pre-instruction moves and then the instruction's code
InstrCode(T, kind, b, j, pm, testOp, spill, save) ==
    IF kind \in PseudoKinds THEN <<>>
    ELSE insertMoves(pm, "premove", b, j)
         \o genCode(T, kind, b, j, testOp, spill, save)

\* the stub of a block with a single successor
TailStub(T, b, mm) ==
    IF Len(Succs(T, b)) = 1 THEN insertEdgeTrans(b, Succs(T, b)[1], mm) ELSE <<>>

\* mutant: the stub of every edge into b is emitted inline, also when its
\* source has a single successor
BlockCode_allInline(T, B, b, pm, mm, testOp, spill, save) ==
    Flatten([k \in 1..Len(Preds(T, b)) |-> insertEdgeTrans(Preds(T, b)[k], b, mm)])
    \o <<Item("label", NoOpnd, NoOpnd, BlockLabel(b), By("label", b, 0, 0))>>
    \o Flatten([j \in 1..Len(Instrs(T, B, b)) |->
          InstrCode(T, Instrs(T, B, b)[j], b, j, pm, testOp, spill, save)])
    \o TailStub(T, b, mm)

\* mutant: the code of an instruction comes before its pre-instruction moves
BlockCode_genFirst(T, B, b, pm, mm, testOp, spill, save) ==
    InlineStubs(T, b, mm)
    \o <<Item("label", NoOpnd, NoOpnd, BlockLabel(b), By("label", b, 0, 0))>>
    \o Flatten([j \in 1..Len(Instrs(T, B, b)) |->
          IF Instrs(T, B, b)[j] \in PseudoKinds THEN <<>>
          ELSE genCode(T, Instrs(T, B, b)[j], b, j, testOp, spill, save)
               \o insertMoves(pm, "premove", b, j)])
    \o TailStub(T, b, mm)

\* mutant: the stubs of the edges into b come after the label of b
BlockCode_stubsAfterLabel(T, B, b, pm, mm, testOp, spill, save) ==
    <<Item("label", NoOpnd, NoOpnd, BlockLabel(b), By("label", b, 0, 0))>>
    \o InlineStubs(T, b, mm)
    \o Flatten([j \in 1..Len(Instrs(T, B, b)) |->
          InstrCode(T, Instrs(T, B, b)[j], b, j, pm, testOp, spill, save)])
    \o TailStub(T, b, mm)

\* one iteration of the block loop
BlockCode(T, B, b, pm, mm, testOp, spill, save) ==
    InlineStubs(T, b, mm)
    \o <<Item("label", NoOpnd, NoOpnd, BlockLabel(b), By("label", b, 0, 0))>>
    \o Flatten([j \in 1..Len(Instrs(T, B, b)) |->
          InstrCode(T, Instrs(T, B, b)[j], b, j, pm, testOp, spill, save)])
    \o TailStub(T, b, mm)

\* everything irToASM would emit if nothing stopped it
Emitted(T, B, pm, mm, testOp, spill, save) ==
    Prologue(spill, save)
    \o Flatten([i \in 1..Len(blockOrder) |->
          BlockCode(T, B, blockOrder[i], pm, mm, testOp, spill, save)])

Aborts(s) == {i \in 1..Len(s) : s[i].op = "abort"}

\* the stream up to the first failed assertion or thrown error
UpToAbort(s) ==
    IF Aborts(s) = {} THEN s
    ELSE SubSeq(s, 1, (CHOOSE i \in Aborts(s) : \A j \in Aborts(s) : i <= j) - 1)

\* ------------------------------------------------------------------------
\* The inputs of irToASM
\* ------------------------------------------------------------------------

\* the terminators a block may have
Terminators ==
    {[kind |-> "ret", targets |-> <<>>]}
    \cup {[kind |-> "jump", targets |-> <<t>>] : t \in BlockIds}
    \cup {[kind |-> "if", targets |-> <<t, e>>] : t \in BlockIds, e \in BlockIds}

\* a chain of jumps that ends in a ret
ChainCFG ==
    [b \in BlockIds |->
        IF b < NumBlocks THEN [kind |-> "jump", targets |-> <<b + 1>>]
        ELSE [kind |-> "ret", targets |-> <<>>]]

\* a loop: every block but the last goes on or back to the first block
LoopCFG ==
    [b \in BlockIds |->
        IF b < NumBlocks THEN [kind |-> "if", targets |-> <<b + 1, 1>>]
        ELSE [kind |-> "ret", targets |-> <<>>]]

BodyKinds == {"arg", "phi", "add"}

IfOps == {"LT", "EQ", "NE", "GT"}

\* abstract moves: the source is an x86 operand or a constant, the
\* destination an x86 operand
Move(src, dst) == [src |-> src, dst |-> dst]

Moves ==
    {Move(Reg("rbx"), Reg("rdx")), Move(Mem(spReg, 32), Reg("rdx")),
     Move(Mem(spReg, 32), Mem(spReg, 40)), Move(Const(7, 8), Reg("rdx")),
     Move(Const(9, 0), Reg("rdx"))}

SaveRegs == <<"rbx", "rbp", "r12", "r13", "r14", "r15">>

\* the frames: the spill space holds the callee-save registers
Frames ==
    {f \in [spill : {0, MaxSave * PLATFORM_PTR_SIZE}, nsave : 0..MaxSave] :
        f.nsave * PLATFORM_PTR_SIZE <= f.spill}

\* any control-flow graph, with one move on every edge and one saved register
InitCFG ==
    /\ term \in [BlockIds -> Terminators]
    /\ body = <<>>
    /\ ifOp = "LT"
    /\ preMv = <<>>
    /\ mergeMv = <<Move(Reg("rbx"), Reg("rdx"))>>
    /\ spillSize = PLATFORM_PTR_SIZE
    /\ calleeSave = SubSeq(SaveRegs, 1, 1)

\* any block body and any move lists, for the chain and for the loop
InitPlan ==
    /\ term \in {ChainCFG, LoopCFG}
    /\ body \in SeqsUpTo(BodyKinds, MaxBody)
    /\ ifOp = "LT"
    /\ \E pm \in SeqsUpTo(Moves, MaxMoves), mm \in SeqsUpTo(Moves, MaxMoves) :
          /\ Len(pm) + Len(mm) <= MaxMoves
          /\ preMv = pm
          /\ mergeMv = mm
    /\ spillSize = PLATFORM_PTR_SIZE
    /\ calleeSave = SubSeq(SaveRegs, 1, 1)

\* any frame and any test operation, for the chain and for the loop
InitFrame ==
    /\ term \in {ChainCFG, LoopCFG}
    /\ body = <<>>
    /\ ifOp \in IfOps
    /\ preMv = <<>>
    /\ mergeMv = <<Move(Reg("rbx"), Reg("rdx"))>>
    /\ \E f \in Frames :
          /\ spillSize = f.spill
          /\ calleeSave = SubSeq(SaveRegs, 1, f.nsave)

NotEmitted ==
    /\ asm = <<>>
    /\ emitState = "init"
    /\ ip = 0
    /\ lastGen = By("prologue", 0, 0, 0)
    /\ pending = NoLabel

InitEmit == (InitCFG \/ InitPlan \/ InitFrame) /\ NotEmitted

InitRun == InitCFG /\ NotEmitted

\* the emission variables when no function is compiled
IdleEmit ==
    /\ term = ChainCFG
    /\ body = <<>>
    /\ ifOp = "LT"
    /\ preMv = <<>>
    /\ mergeMv = <<>>
    /\ spillSize = 0
    /\ calleeSave = <<>>
    /\ NotEmitted

\* x86.irToASM(irFunc, blockOrder, allocInfo, backend, params)
IrToASM ==
    /\ emitState = "init"
    /\ LET s == Emitted(term, body, preMv, mergeMv, ifOp, spillSize, calleeSave)
       IN  /\ asm' = UpToAbort(s)
           /\ emitState' = IF Aborts(s) = {} THEN "done" ELSE "aborted"
    /\ UNCHANGED <<funcVars, planVars, runVars, irVars, constVars, makeVars, genVars, objVars>>

\* ------------------------------------------------------------------------
\* Execution of the emitted stream, followed along control flow
\* ------------------------------------------------------------------------

Running == emitState = "done" /\ ip \in 1..Len(asm)

CondJumps == {"jl", "jb", "je", "jne"}

\* the places of the stream where a label was added
LabelAt(lbl) == {i \in 1..Len(asm) : asm[i].op = "label" /\ asm[i].lbl = lbl}

\* what executing an item leaves behind: the last instruction whose code ran,
\* and the edge whose merge moves ran since
Track(item) ==
    /\ lastGen' = IF item.by.part = "gen" THEN item.by ELSE lastGen
    /\ pending' = IF item.by.part = "merge" THEN EdgeLabel(item.by.a, item.by.b)
                  ELSE IF item.by.part \in {"gen", "premove"} THEN NoLabel
                  ELSE pending

\* control enters the stream at its first instruction
ExecStart ==
    /\ emitState = "done"
    /\ ip = 0
    /\ ip' = 1
    /\ UNCHANGED <<funcVars, planVars, asm, emitState, lastGen, pending,
                   irVars, constVars, makeVars, genVars, objVars>>

\* an instruction that is no jump, or a label: control goes on to the next
ExecNext ==
    /\ Running
    /\ asm[ip].op \notin CondJumps \cup {"jmp", "ret"}
    /\ ip' = ip + 1
    /\ Track(asm[ip])
    /\ UNCHANGED <<funcVars, planVars, asm, emitState, irVars, constVars, makeVars, genVars, objVars>>

\* jmp, or a conditional jump that is taken: control goes to the label
ExecJump ==
    /\ Running
    /\ asm[ip].op \in CondJumps \cup {"jmp"}
    /\ \E target \in LabelAt(asm[ip].lbl) : ip' = target
    /\ Track(asm[ip])
    /\ UNCHANGED <<funcVars, planVars, asm, emitState, irVars, constVars, makeVars, genVars, objVars>>

\* a conditional jump that is not taken
ExecFall ==
    /\ Running
    /\ asm[ip].op \in CondJumps
    /\ ip' = ip + 1
    /\ Track(asm[ip])
    /\ UNCHANGED <<funcVars, planVars, asm, emitState, irVars, constVars, makeVars, genVars, objVars>>

\* ret: control leaves the function
ExecRet ==
    /\ Running
    /\ asm[ip].op = "ret"
    /\ ip' = Len(asm) + 1
    /\ Track(asm[ip])
    /\ UNCHANGED <<funcVars, planVars, asm, emitState, irVars, constVars, makeVars, genVars, objVars>>

\* ------------------------------------------------------------------------
\* instrMaker: the arguments of a constructor call
\* ------------------------------------------------------------------------

\* what a constructor may be handed: an IRTypeObj, an IRValue (a plain value
\* of type t, or an IRFunction with its retType, "" when it has none), a
\* BasicBlock, or an object of another kind
TypeArg(t) == [k |-> "type", t |-> t, ret |-> "", b |-> 0]

ValArg(t) == [k |-> "value", t |-> t, ret |-> "", b |-> 0]

FuncArg(ret) == [k |-> "func", t |-> "box", ret |-> ret, b |-> 0]

BlockArg(b) == [k |-> "block", t |-> "", ret |-> "", b |-> b]

OtherArg == [k |-> "other", t |-> "", ret |-> "", b |-> 0]

\* argArray[i] instanceof IRValue
IRValueKinds == {"value", "func"}

\* the for loops of parseArgs: the first index from i on that holds no
\* element of the kinds
RECURSIVE RunEnd(_, _, _)
RunEnd(argArray, i, kinds) ==
    IF i <= Len(argArray) /\ argArray[i].k \in kinds
    THEN RunEnd(argArray, i + 1, kinds)
    ELSE i

\* parseArgs(argArray, typeParams, inputVals, branchTargets)
parseArgs(argArray) ==
    LET i1 == RunEnd(argArray, 1, {"type"})
        i2 == RunEnd(argArray, i1, IRValueKinds)
        i3 == RunEnd(argArray, i2, {"block"})
    IN  [ok            |-> i3 = Len(argArray) + 1,
         typeParams    |-> SubSeq(argArray, 1, i1 - 1),
         inputVals     |-> SubSeq(argArray, i1, i2 - 1),
         branchTargets |-> SubSeq(argArray, i2, i3 - 1)]

\* a naming that spells out every input type, box included
setName_everyInput(mnemonic, typeParams, inputVals) ==
    IF Len(typeParams) > 0
    THEN <<mnemonic>> \o [j \in 1..Len(typeParams) |-> typeParams[j].t]
    ELSE <<mnemonic>> \o [j \in 1..Len(inputVals) |-> inputVals[j].t]

\* setName(typeParams, inputVals): the mnemonic as its '_'-separated tokens
setName(mnemonic, typeParams, inputVals) ==
    IF Len(typeParams) > 0
    THEN <<mnemonic>> \o [j \in 1..Len(typeParams) |-> typeParams[j].t]
    ELSE LET firstType == IF Len(inputVals) > 0 THEN inputVals[1].t ELSE "null"
             allSame   == \A j \in 1..Len(inputVals) : inputVals[j].t = firstType
         IN  IF allSame
             THEN IF firstType # "null" /\ firstType # "box"
                  THEN <<mnemonic, firstType>>
                  ELSE <<mnemonic>>
             ELSE <<mnemonic>> \o [j \in 1..Len(inputVals) |-> inputVals[j].t]

\* ------------------------------------------------------------------------
\* instrMaker: the validation helpers and the initFunc of every kind
\* ------------------------------------------------------------------------

\* instrMaker.validCount: expected is the set of lengths from minExpected to
\* maxExpected
validCount(array, expected) == Len(array) \in expected

\* minExpected or more (maxExpected is Infinity)
OrMore(minExpected) == Nat \ (0..(minExpected - 1))

validNumParams(typeParams, expected) == validCount(typeParams, expected)

validNumInputs(inputVals, expected) == validCount(inputVals, expected)

validNumBranches(branchTargets, expected) == validCount(branchTargets, expected)

\* instrMaker.allValsBoxed
allValsBoxed(inputVals) == \A j \in 1..Len(inputVals) : inputVals[j].t = "box"

\* instrMaker.validType
validType(value, expectedType) == value.t = expectedType

\* IRTypeObj.prototype.isPtrType
isPtrType(t) == t \in {"rptr", "box"}

\* what an initFunc leaves behind: the fields it assigned ("" for a field it
\* did not assign) when it returns, the message when it throws
Done(type, sideEffects, mnemonic) ==
    [ok |-> TRUE, type |-> type, se |-> sideEffects, mn |-> mnemonic, msg |-> ""]

Fail(mnemonic, msg) ==
    [ok |-> FALSE, type |-> "", se |-> "", mn |-> mnemonic, msg |-> msg]

\* the arguments of untypedInstrMaker for each kind it builds; branchNames
\* <<>> stands for undefined (no kind passes an empty list), and voidOutput
\* and sideEffects are the text of the argument passed
Untyped(mnemonic, numInputs, branchNames, voidOutput, sideEffects) ==
    [mnemonic |-> mnemonic, numInputs |-> numInputs, branchNames |-> branchNames,
     voidOutput |-> voidOutput, sideEffects |-> sideEffects]

UntypedKinds ==
    [LogNotInstr       |-> Untyped("not", 1, <<>>, "undefined", "undefined"),
     TypeOfInstr       |-> Untyped("typeof", 1, <<>>, "undefined", "undefined"),
     InstOfInstr       |-> Untyped("instanceof", 2, <<>>, "undefined", "undefined"),
     CatchInstr        |-> Untyped("catch", 0, <<>>, "undefined", "undefined"),
     HasPropValInstr   |-> Untyped("has_prop_val", 2, <<>>, "undefined", "undefined"),
     GetPropNamesInstr |-> Untyped("get_prop_names", 1, <<>>, "undefined", "undefined"),
     DelPropValInstr   |-> Untyped("del_prop_val", 2, <<>>, "true", "true"),
     MakeArgObjInstr   |-> Untyped("make_arg_obj", 1, <<>>, "undefined", "undefined"),
     MakeCellInstr     |-> Untyped("make_cell", 0, <<>>, "undefined", "undefined"),
     GetCellInstr      |-> Untyped("get_cell", 1, <<>>, "undefined", "undefined"),
     PutCellInstr      |-> Untyped("put_cell", 2, <<>>, "true", "true"),
     GetClosInstr      |-> Untyped("get_clos", 2, <<>>, "undefined", "undefined"),
     PutClosInstr      |-> Untyped("put_clos", 3, <<>>, "true", "true"),
     NewObjectInstr    |-> Untyped("new_object", 1, <<>>, "undefined", "undefined"),
     NewArrayInstr     |-> Untyped("new_array", 0, <<>>, "undefined", "undefined"),
     SeqInstr          |-> Untyped("seq", 2, <<>>, "false", "new CompInstr()"),
     NseqInstr         |-> Untyped("nseq", 2, <<>>, "false", "new CompInstr()"),
     JumpInstr         |-> Untyped("jump", 0, <<"undefined">>, "true", "undefined")]

\* the initFunc of untypedInstrMaker
untypedInit(u, inputVals, branchTargets) ==
    IF ~validNumInputs(inputVals, {u.numInputs})
    THEN Fail("", "got input values, expected")
    ELSE IF ~allValsBoxed(inputVals)
    THEN Fail("", "all input values must be boxed")
    ELSE IF ~(\/ Len(branchTargets) = 0 /\ u.branchNames = <<>>
              \/ u.branchNames # <<>> /\ Len(branchTargets) = Len(u.branchNames))
    THEN Fail("", "invalid number of branch targets specified")
    ELSE Done(IF u.voidOutput = "true" THEN "none" ELSE "box",
              IF u.sideEffects # "undefined" THEN "true" ELSE "false",
              "")

\* the test of ArithInstr.prototype.initFunc, also part of AddInstr, SubInstr
\* and CompInstr.prototype.initFunc
SameBoxOrNumber(inputVals) ==
    /\ inputVals[1].t = "box" \/ isNumberType(inputVals[1].t)
    /\ inputVals[2].t = inputVals[1].t

\* ArithInstr.prototype.initFunc: mul, div, mod
ArithInit(inputVals) ==
    IF ~validNumInputs(inputVals, {2}) THEN Fail("", "got input values, expected")
    ELSE IF ~SameBoxOrNumber(inputVals) THEN Fail("", "invalid input types")
    ELSE Done(inputVals[1].t, "", "")

\* an add that takes two values of one type only
AddInit_sameTypeOnly(inputVals) ==
    IF ~validNumInputs(inputVals, {2}) THEN Fail("", "got input values, expected")
    ELSE IF ~SameBoxOrNumber(inputVals) THEN Fail("", "invalid input types")
    ELSE Done(inputVals[1].t, "", "")

\* the initFunc of AddInstr
AddInit(inputVals) ==
    IF ~validNumInputs(inputVals, {2}) THEN Fail("", "got input values, expected")
    ELSE IF ~(\/ inputVals[1].t = "rptr" /\ inputVals[2].t = pint
              \/ SameBoxOrNumber(inputVals))
    THEN Fail("", "invalid input types")
    ELSE Done(inputVals[1].t, "", "")

\* a sub whose output always has the type of its first input
SubInit_firstType(inputVals) ==
    IF ~validNumInputs(inputVals, {2}) THEN Fail("", "got input values, expected")
    ELSE IF ~(\/ inputVals[1].t = "rptr" /\ inputVals[2].t = pint
              \/ inputVals[1].t = "rptr" /\ inputVals[2].t = "rptr"
              \/ SameBoxOrNumber(inputVals))
    THEN Fail("", "invalid input types")
    ELSE Done(inputVals[1].t, "", "")

\* the initFunc of SubInstr
SubInit(inputVals) ==
    IF ~validNumInputs(inputVals, {2}) THEN Fail("", "got input values, expected")
    ELSE IF ~(\/ inputVals[1].t = "rptr" /\ inputVals[2].t = pint
              \/ inputVals[1].t = "rptr" /\ inputVals[2].t = "rptr"
              \/ SameBoxOrNumber(inputVals))
    THEN Fail("", "invalid input types")
    ELSE Done(IF inputVals[1].t = "rptr" /\ inputVals[2].t = "rptr"
              THEN pint ELSE inputVals[1].t, "", "")

\* ArithOvfInstr.prototype.initFunc: add_ovf, sub_ovf, mul_ovf
ArithOvfInit(inputVals) ==
    IF ~validNumInputs(inputVals, {2}) THEN Fail("", "got input values, expected")
    ELSE IF ~(\/ inputVals[1].t = pint /\ inputVals[2].t = inputVals[1].t
              \/ inputVals[1].t = "box" /\ inputVals[2].t = inputVals[1].t)
    THEN Fail("", "invalid input types")
    ELSE Done(inputVals[1].t, "", "")

\* BitOpInstr.prototype.initFunc: and, or, xor, lsft, rsft, ursft
BitOpInit(inputVals) ==
    IF ~validNumInputs(inputVals, {2}) THEN Fail("", "got input values, expected")
    ELSE IF ~(\/ inputVals[1].t = "box" /\ inputVals[2].t \in {"box", pint}
              \/ isIntType(inputVals[1].t) /\ inputVals[2].t = inputVals[1].t)
    THEN Fail("", "invalid input types")
    ELSE Done(inputVals[2].t, "", "")

\* the initFunc of NotInstr
NotInit(inputVals) ==
    IF ~validNumInputs(inputVals, {1}) THEN Fail("", "got input values, expected")
    ELSE IF ~(inputVals[1].t = "box" \/ isIntType(inputVals[1].t))
    THEN Fail("", "invalid input type")
    ELSE Done(inputVals[1].t, "", "")

\* CompInstr.prototype.initFunc: lt, lte, gt, gte, eq, neq
CompInit(inputVals) ==
    IF ~validNumInputs(inputVals, {2}) THEN Fail("", "got input values, expected")
    ELSE IF ~SameBoxOrNumber(inputVals) THEN Fail("", "invalid input types")
    ELSE Done(IF inputVals[1].t = "box" THEN "box" ELSE "i8", "", "")

\* the initFunc of MakeClosInstr
MakeClosInit(inputVals) ==
    IF ~allValsBoxed(inputVals) THEN Fail("", "all input values must be boxed")
    ELSE IF ~validNumInputs(inputVals, OrMore(1))
    THEN Fail("", "got input values, expected")
    ELSE IF inputVals[1].k # "func" THEN Fail("", "expected function as first argument")
    ELSE Done("", "", "")

\* the initFunc of RetInstr
RetInit(inputVals) ==
    IF ~validNumInputs(inputVals, {1}) THEN Fail("", "got input values, expected")
    ELSE Done("none", "", "")

\* the initFunc of IfInstr
IfInit(inputVals, branchTargets) ==
    IF ~validNumInputs(inputVals, {1}) THEN Fail("", "got input values, expected")
    ELSE IF inputVals[1].t \notin {"box", "i8"} THEN Fail("", "input must be boxed or int8")
    ELSE IF ~validNumBranches(branchTargets, {2})
    THEN Fail("", "got branch targets, expected")
    ELSE Done("none", "", "")

\* the initFunc of ThrowInstr
ThrowInit(inputVals, branchTargets) ==
    IF ~validNumInputs(inputVals, {1}) THEN Fail("", "got input values, expected")
    ELSE IF ~validType(inputVals[1], "box") THEN Fail("", "got value, expected")
    ELSE IF ~validNumBranches(branchTargets, 0..1)
    THEN Fail("", "got branch targets, expected")
    ELSE Done("none", "", "")

\* a call that checks the function only
CallFuncInit_funcOnly(inputVals, branchTargets) ==
    IF ~validNumInputs(inputVals, OrMore(2))
    THEN Fail("call", "got input values, expected")
    ELSE IF ~validType(inputVals[1], "box")
    THEN Fail("call", "got value, expected")
    ELSE IF ~validNumBranches(branchTargets, 0..2)
    THEN Fail("call", "got branch targets, expected")
    ELSE Done(IF inputVals[1].ret \in IRType THEN inputVals[1].ret ELSE "box",
              "", "call")

\* the initFunc of CallFuncInstr: this.mnemonic is assigned first
CallFuncInit(inputVals, branchTargets) ==
    IF ~validNumInputs(inputVals, OrMore(2))
    THEN Fail("call", "got input values, expected")
    ELSE IF ~(validType(inputVals[1], "box") /\ validType(inputVals[2], "box"))
    THEN Fail("call", "got value, expected")
    ELSE IF ~validNumBranches(branchTargets, 0..2)
    THEN Fail("call", "got branch targets, expected")
    ELSE Done(IF inputVals[1].ret \in IRType THEN inputVals[1].ret ELSE "box",
              "", "call")

\* the initFunc of ConstructInstr
ConstructInit(inputVals, branchTargets) ==
    IF ~validNumInputs(inputVals, OrMore(2))
    THEN Fail("construct", "got input values, expected")
    ELSE IF ~(validType(inputVals[1], "box") /\ validType(inputVals[2], "box"))
    THEN Fail("construct", "got value, expected")
    ELSE IF ~validNumBranches(branchTargets, 0..2)
    THEN Fail("construct", "got branch targets, expected")
    ELSE Done("box", "", "construct")

\* the initFunc of PutPropValInstr (3 inputs) and GetPropValInstr (2 inputs)
PropValInit(numInputs, type, inputVals, branchTargets) ==
    IF ~validNumInputs(inputVals, {numInputs})
    THEN Fail("", "got input values, expected")
    ELSE IF ~(\A j \in 1..numInputs : validType(inputVals[j], "box"))
    THEN Fail("", "got value, expected")
    ELSE IF ~validNumBranches(branchTargets, 0..2)
    THEN Fail("", "got branch targets, expected")
    ELSE Done(type, "", "")

\* the initFunc of UnboxInstr
UnboxInit(typeParams, inputVals) ==
    IF ~validNumParams(typeParams, {1}) THEN Fail("", "got type parameters, expected")
    ELSE IF ~validNumInputs(inputVals, {1}) THEN Fail("", "got input values, expected")
    ELSE IF typeParams[1].t # pint THEN Fail("", "type parameter should be platform int")
    ELSE IF ~validType(inputVals[1], "box") THEN Fail("", "got value, expected")
    ELSE Done(typeParams[1].t, "", "")

\* the initFunc of BoxInstr
BoxInit(typeParams, inputVals) ==
    IF ~validNumParams(typeParams, {1}) THEN Fail("", "got type parameters, expected")
    ELSE IF ~validNumInputs(inputVals, {1}) THEN Fail("", "got input values, expected")
    ELSE IF typeParams[1].t # pint THEN Fail("", "type parameter should be platform int")
    ELSE IF ~validType(inputVals[1], typeParams[1].t) THEN Fail("", "got value, expected")
    ELSE Done("box", "", "")

\* the types ICastInstr converts between
CastTypes(t) == isIntType(t) \/ t = "box" \/ t = "rptr"

\* the initFunc of ICastInstr
ICastInit(typeParams, inputVals) ==
    IF ~validNumParams(typeParams, {1}) THEN Fail("", "got type parameters, expected")
    ELSE IF ~validNumInputs(inputVals, {1}) THEN Fail("", "got input values, expected")
    ELSE IF ~(CastTypes(inputVals[1].t) /\ CastTypes(typeParams[1].t))
    THEN Fail("", "type parameters must be integer or raw pointer")
    ELSE Done(typeParams[1].t, "", "")

\* the initFunc of IToFPInstr: both counts are taken of inputVals;
\* typeParams[0] is undefined when there is no type parameter
IToFPInit(typeParams, inputVals) ==
    IF ~validNumParams(inputVals, {1}) THEN Fail("", "got type parameters, expected")
    ELSE IF ~validNumInputs(inputVals, {1}) THEN Fail("", "got input values, expected")
    ELSE IF ~(/\ inputVals[1].t = pint
              /\ Len(typeParams) > 0
              /\ typeParams[1].t = "f64")
    THEN Fail("", "invalid type parameters")
    ELSE Done(typeParams[1].t, "", "")

\* the initFunc of FPToIInstr: both counts are taken of inputVals;
\* typeParams[0].type is a TypeError when there is no type parameter and
\* undefined otherwise, since an IRTypeObj has no field type
FPToIInit(typeParams, inputVals) ==
    IF ~validNumParams(inputVals, {1}) THEN Fail("", "got type parameters, expected")
    ELSE IF ~validNumInputs(inputVals, {1}) THEN Fail("", "got input values, expected")
    ELSE IF Len(typeParams) = 0 THEN Fail("", "TypeError")
    ELSE IF ~(LET typeField == "undefined"
              IN  typeField = "f64" /\ typeParams[1].t = pint)
    THEN Fail("", "invalid type parameters")
    ELSE Done(typeParams[1].t, "", "")

\* the initFunc of LoadInstr
LoadInit(typeParams, inputVals) ==
    IF ~validNumParams(typeParams, {1}) THEN Fail("", "got type parameters, expected")
    ELSE IF ~validNumInputs(inputVals, {2}) THEN Fail("", "got input values, expected")
    ELSE IF ~isPtrType(inputVals[1].t) THEN Fail("", "the first input must be a pointer")
    ELSE IF ~validType(inputVals[2], pint) THEN Fail("", "got value, expected")
    ELSE Done(typeParams[1].t, "", "")

\* the initFunc of StoreInstr
StoreInit(typeParams, inputVals) ==
    IF ~validNumParams(typeParams, {1}) THEN Fail("", "got type parameters, expected")
    ELSE IF ~validNumInputs(inputVals, {3}) THEN Fail("", "got input values, expected")
    ELSE IF ~isPtrType(inputVals[1].t) THEN Fail("", "the first input must be a pointer")
    ELSE IF ~(validType(inputVals[2], pint) /\ validType(inputVals[3], typeParams[1].t))
    THEN Fail("", "got value, expected")
    ELSE Done("none", "true", "")

\* the initFunc of GetCtxInstr
GetCtxInit(inputVals) ==
    IF ~validNumInputs(inputVals, {0}) THEN Fail("", "got input values, expected")
    ELSE Done("rptr", "", "")

\* the initFunc of SetCtxInstr
SetCtxInit(inputVals) ==
    IF ~validNumInputs(inputVals, {1}) THEN Fail("", "got input values, expected")
    ELSE IF ~validType(inputVals[1], "rptr") THEN Fail("", "got value, expected")
    ELSE Done("none", "true", "")

\* ------------------------------------------------------------------------
\* instrMaker: the constructors
\* ------------------------------------------------------------------------

\* the arguments of instrMaker for each kind it builds directly: mnemonic
\* ("undefined" when the initFunc sets the name), branchNames (<<>> for
\* undefined) and the class of protoObj
Typed(mnemonic, branchNames, proto) ==
    [mnemonic |-> mnemonic, branchNames |-> branchNames, proto |-> proto]

TypedKinds ==
    [MakeClosInstr   |-> Typed("make_clos", <<>>, "IRInstr"),
     AddInstr        |-> Typed("add", <<>>, "ArithInstr"),
     SubInstr        |-> Typed("sub", <<>>, "ArithInstr"),
     MulInstr        |-> Typed("mul", <<>>, "ArithInstr"),
     DivInstr        |-> Typed("div", <<>>, "ArithInstr"),
     ModInstr        |-> Typed("mod", <<>>, "ArithInstr"),
     AddOvfInstr     |-> Typed("add_ovf", <<"normal", "overflow">>, "ArithOvfInstr"),
     SubOvfInstr     |-> Typed("sub_ovf", <<"normal", "overflow">>, "ArithOvfInstr"),
     MulOvfInstr     |-> Typed("mul_ovf", <<"normal", "overflow">>, "ArithOvfInstr"),
     NotInstr        |-> Typed("not", <<>>, "BitOpInstr"),
     AndInstr        |-> Typed("and", <<>>, "BitOpInstr"),
     OrInstr         |-> Typed("or", <<>>, "BitOpInstr"),
     XorInstr        |-> Typed("xor", <<>>, "BitOpInstr"),
     LsftInstr       |-> Typed("lsft", <<>>, "BitOpInstr"),
     RsftInstr       |-> Typed("rsft", <<>>, "BitOpInstr"),
     UrsftInstr      |-> Typed("ursft", <<>>, "BitOpInstr"),
     LtInstr         |-> Typed("lt", <<>>, "CompInstr"),
     LteInstr        |-> Typed("lte", <<>>, "CompInstr"),
     GtInstr         |-> Typed("gt", <<>>, "CompInstr"),
     GteInstr        |-> Typed("gte", <<>>, "CompInstr"),
     EqInstr         |-> Typed("eq", <<>>, "CompInstr"),
     NeqInstr        |-> Typed("neq", <<>>, "CompInstr"),
     RetInstr        |-> Typed("ret", <<>>, "IRInstr"),
     IfInstr         |-> Typed("if", <<"then", "else">>, "IRInstr"),
     ThrowInstr      |-> Typed("throw", <<"to">>, "ExceptInstr"),
     CallFuncInstr   |-> Typed("undefined", <<"continue", "throw">>, "CallInstr"),
     ConstructInstr  |-> Typed("undefined", <<"continue", "throw">>, "CallInstr"),
     PutPropValInstr |-> Typed("put_prop_val", <<"continue", "throw">>, "CallInstr"),
     GetPropValInstr |-> Typed("get_prop_val", <<"continue", "throw">>, "CallInstr"),
     UnboxInstr      |-> Typed("unbox", <<>>, "IRInstr"),
     BoxInstr        |-> Typed("box", <<>>, "IRInstr"),
     ICastInstr      |-> Typed("icast", <<>>, "IRInstr"),
     IToFPInstr      |-> Typed("itof", <<>>, "IRInstr"),
     FPToIInstr      |-> Typed("ftoi", <<>>, "IRInstr"),
     LoadInstr       |-> Typed("load", <<>>, "IRInstr"),
     StoreInstr      |-> Typed("store", <<>>, "IRInstr"),
     GetCtxInstr     |-> Typed("get_ctx", <<>>, "IRInstr"),
     SetCtxInstr     |-> Typed("set_ctx", <<>>, "IRInstr")]

\* the constructors built by instrMaker and untypedInstrMaker
Kinds == DOMAIN UntypedKinds \cup DOMAIN TypedKinds

\* the closure variables of a constructor
Maker(kind) ==
    IF kind \in DOMAIN UntypedKinds
    THEN Typed(UntypedKinds[kind].mnemonic, UntypedKinds[kind].branchNames, "IRInstr")
    ELSE TypedKinds[kind]

\* this.initFunc(typeParams, inputVals, branchTargets)
initFunc(kind, typeParams, inputVals, branchTargets) ==
    IF kind \in DOMAIN UntypedKinds
    THEN untypedInit(UntypedKinds[kind], inputVals, branchTargets)
    ELSE CASE kind = "AddInstr" -> AddInit(inputVals)
           [] kind = "SubInstr" -> SubInit(inputVals)
           [] TypedKinds[kind].proto = "ArithInstr" -> ArithInit(inputVals)
           [] TypedKinds[kind].proto = "ArithOvfInstr" -> ArithOvfInit(inputVals)
           [] kind = "NotInstr" -> NotInit(inputVals)
           [] TypedKinds[kind].proto = "BitOpInstr" -> BitOpInit(inputVals)
           [] TypedKinds[kind].proto = "CompInstr" -> CompInit(inputVals)
           [] kind = "MakeClosInstr" -> MakeClosInit(inputVals)
           [] kind = "RetInstr" -> RetInit(inputVals)
           [] kind = "IfInstr" -> IfInit(inputVals, branchTargets)
           [] kind = "ThrowInstr" -> ThrowInit(inputVals, branchTargets)
           [] kind = "CallFuncInstr" -> CallFuncInit(inputVals, branchTargets)
           [] kind = "ConstructInstr" -> ConstructInit(inputVals, branchTargets)
           [] kind = "PutPropValInstr" -> PropValInit(3, "none", inputVals, branchTargets)
           [] kind = "GetPropValInstr" -> PropValInit(2, "box", inputVals, branchTargets)
           [] kind = "UnboxInstr" -> UnboxInit(typeParams, inputVals)
           [] kind = "BoxInstr" -> BoxInit(typeParams, inputVals)
           [] kind = "ICastInstr" -> ICastInit(typeParams, inputVals)
           [] kind = "IToFPInstr" -> IToFPInit(typeParams, inputVals)
           [] kind = "FPToIInstr" -> FPToIInit(typeParams, inputVals)
           [] kind = "LoadInstr" -> LoadInit(typeParams, inputVals)
           [] kind = "StoreInstr" -> StoreInit(typeParams, inputVals)
           [] kind = "GetCtxInstr" -> GetCtxInit(inputVals)
           [] kind = "SetCtxInstr" -> SetCtxInit(inputVals)

\* the outcome of a constructor call: state is "none" before any call, "ok"
\* for an instruction, "parse" when parseArgs throws and "init" when the
\* initFunc does; named is the name in the text thrown and own the name the
\* instruction had given itself by then
Outcome(state, named, own, msg, mnemonic, typeParams, uses, targets, type, sideEffects) ==
    [state |-> state, named |-> named, own |-> own, msg |-> msg,
     mnemonic |-> mnemonic, typeParams |-> typeParams, uses |-> uses,
     targets |-> targets, type |-> type, sideEffects |-> sideEffects]

\* function InstrConstr(inputs): inputs is the array given, or the arguments
InstrConstr(kind, inputs) ==
    LET m == Maker(kind)
        a == parseArgs(inputs)
        r == initFunc(kind, a.typeParams, a.inputVals, a.branchTargets)
    IN  IF ~a.ok
        THEN Outcome("parse", m.mnemonic, "", "invalid arguments passed to",
                     <<>>, <<>>, <<>>, <<>>, "", FALSE)
        ELSE IF ~r.ok
        THEN Outcome("init", m.mnemonic, r.mn, r.msg, <<>>, <<>>, <<>>, <<>>, "", FALSE)
        ELSE Outcome("ok", "", r.mn, "",
                     IF r.mn = "" THEN setName(m.mnemonic, a.typeParams, a.inputVals)
                     ELSE <<r.mn>>,
                     a.typeParams,
                     a.inputVals,
                     IF m.branchNames # <<>> THEN a.branchTargets ELSE <<>>,
                     IF r.type = "" THEN "box" ELSE r.type,
                     IF r.se = "" THEN m.proto = "CallInstr" ELSE r.se = "true")

\* IRInstr.prototype.isBranch, overridden by RetInstr and ThrowInstr
isBranch(kind, instruction) ==
    IF kind \in {"RetInstr", "ThrowInstr"} THEN TRUE
    ELSE Len(instruction.targets) > 0

\* ------------------------------------------------------------------------
\* The calls of the constructors
\* ------------------------------------------------------------------------

\* the argument lists given to the constructors: every well-ordered list of
\* at most MaxArgs elements (types, then values, then blocks), every pair of
\* values of any two types, and every list of at most MaxMixed elements in
\* any order
Args ==
    LET ArgTypes  == {TypeArg(pint), TypeArg("f64")}
        ArgVals   == {ValArg("box"), ValArg(pint), ValArg("rptr"), ValArg("f64"),
                      FuncArg(pint)}
        ArgBlocks == {BlockArg(b) : b \in BlockIds}
        Lens      == {x \in (0..MaxArgs) \X (0..MaxArgs) \X (0..MaxArgs) :
                         x[1] + x[2] + x[3] <= MaxArgs}
    IN  UNION { UNION {{tp \o iv \o bt : tp \in [1..n[1] -> ArgTypes],
                                        iv \in [1..n[2] -> ArgVals],
                                        bt \in [1..n[3] -> ArgBlocks]} : n \in Lens},
                {<<ValArg(t0), ValArg(t1)>> : t0 \in IRType, t1 \in IRType},
                SeqsUpTo({TypeArg(pint), ValArg("box"), BlockArg(1), OtherArg}, MaxMixed) }

InitMake ==
    made = [kind |-> "", inputs |-> <<>>,
            res |-> Outcome("none", "", "", "", <<>>, <<>>, <<>>, <<>>, "", FALSE)]

\* new <kind>(inputs)
Construct ==
    /\ made.res.state = "none"
    /\ \E kind \in Kinds, inputs \in Args :
          made' = [kind |-> kind, inputs |-> inputs, res |-> InstrConstr(kind, inputs)]
    /\ UNCHANGED <<irVars, constVars, emitVars, genVars, objVars>>

\* ------------------------------------------------------------------------
\* genCode of mod and if, and the execution of the compare and jumps
\* ------------------------------------------------------------------------

\* width of the operand values of the executed code, in bits
ValBits == 2

\* IRTypeObj.prototype.isUnsigned, isSigned
isUnsigned(t) == t \in {"u8", "u16", "u32", "u64"}

isSigned(t) == t \in {"i8", "i16", "i32", "i64", "f64"}

\* the policy object instr.x86, which is 'this' inside genCode: it has the
\* hooks and no field named type
InstrCfg == [type |-> "undefined"]

\* ModInstr.prototype.x86.genCode; this is the policy object, this.type its
\* field
genMod(this, x86_64, opnds, by) ==
    LET xDX == IF x86_64 THEN Reg("rdx") ELSE Reg("edx")
    IN  IF this.type \notin IRType
        THEN <<Abort(by)>>
        ELSE IF isUnsigned(this.type)
        THEN <<Item("mov", xDX, Imm(0), NoLabel, by),
               Item("div", opnds[2], NoOpnd, NoLabel, by)>>
        ELSE <<Item(IF x86_64 THEN "cqo" ELSE "cdq", NoOpnd, NoOpnd, NoLabel, by),
               Item("idiv", opnds[2], NoOpnd, NoLabel, by)>>

\* the values an operand holds, as bit patterns of ValBits bits
Vals == 0..(2^ValBits - 1)

\* a bit pattern read as a two's complement number
Signed(v) == IF v >= 2^(ValBits - 1) THEN v - 2^ValBits ELSE v

\* the condition of a conditional jump on the flags that cmp lhs, rhs left
Taken(jcc, lhs, rhs) ==
    CASE jcc = "jl"  -> Signed(lhs) < Signed(rhs)
      [] jcc = "jb"  -> lhs < rhs
      [] jcc = "je"  -> lhs = rhs
      [] jcc = "jne" -> lhs # rhs

\* the targets of the if instruction of block 1: then and else
GenTargets == <<NumBlocks, 1>>

NoGen ==
    [kind |-> "", type |-> "none", testOp |-> "", x86_64 |-> TRUE,
     opnds |-> <<NoOpnd, NoOpnd>>, a |-> 0, b |-> 0, code |-> <<>>,
     aborted |-> FALSE, pc |-> 0, flags |-> <<0, 0>>, at |-> NoLabel]

InitGen == codegen = NoGen

\* what genCode left in the assembler
Generated(g, s) ==
    [g EXCEPT !.code = UpToAbort(s), !.aborted = Aborts(s) # {},
              !.pc = IF Aborts(s) # {} THEN 0 ELSE 1]

\* genCode of a mod instruction of any integer type, on either platform
GenMod ==
    /\ codegen.kind = ""
    /\ \E type \in {"u8", "i8", "u32", "i32", "u64", "i64"}, x86_64 \in BOOLEAN :
          codegen' = Generated(
                    [NoGen EXCEPT !.kind = "mod", !.type = type, !.x86_64 = x86_64,
                                  !.opnds = Opnds],
                    genMod(InstrCfg, x86_64, Opnds, By("gen", 1, 1, 0)))
    /\ UNCHANGED <<irVars, constVars, emitVars, makeVars, objVars>>

\* genCode of an if instruction whose operands hold a and b; operand 0 is a
\* register or an immediate
GenIf ==
    /\ codegen.kind = ""
    /\ \E testOp \in IfOps, type \in {"box", "i8", "u8"}, a \in Vals, b \in Vals :
       \E opnd0 \in {Reg("rax"), Imm(a)} :
          codegen' = Generated(
                    [NoGen EXCEPT !.kind = "if", !.type = type, !.testOp = testOp,
                                  !.opnds = <<opnd0, Reg("rcx")>>, !.a = a, !.b = b],
                    genIf(1, GenTargets, testOp, <<opnd0, Reg("rcx")>>,
                          isSigned(type) \/ type = "box", By("gen", 1, 1, 0)))
    /\ UNCHANGED <<irVars, constVars, emitVars, makeVars, objVars>>

\* the value of an operand: an immediate's own, rax holds a, rcx holds b
ValOf(o) == IF o.k = "imm" THEN o.n ELSE IF o.r = "rax" THEN codegen.a ELSE codegen.b

GenRunning == codegen.pc \in 1..Len(codegen.code) /\ codegen.at = NoLabel

\* cmp: the flags are those of the first operand minus the second
GenCmp ==
    /\ GenRunning
    /\ codegen.code[codegen.pc].op = "cmp"
    /\ codegen' = [codegen EXCEPT !.flags = <<ValOf(codegen.code[codegen.pc].dst),
                                      ValOf(codegen.code[codegen.pc].src)>>,
                          !.pc = @ + 1]
    /\ UNCHANGED <<irVars, constVars, emitVars, makeVars, objVars>>

\* a jump: control goes to its label, or past a conditional jump whose
\* condition does not hold
GenJump ==
    /\ GenRunning
    /\ codegen.code[codegen.pc].op \in CondJumps \cup {"jmp"}
    /\ codegen' = IF codegen.code[codegen.pc].op = "jmp"
                 \/ Taken(codegen.code[codegen.pc].op, codegen.flags[1], codegen.flags[2])
              THEN [codegen EXCEPT !.at = codegen.code[codegen.pc].lbl]
              ELSE [codegen EXCEPT !.pc = @ + 1]
    /\ UNCHANGED <<irVars, constVars, emitVars, makeVars, objVars>>

\* ------------------------------------------------------------------------
\* Calls that may fail: the phi node
\* ------------------------------------------------------------------------

\* a call that has ended: the method, the object it was called on, its
\* arguments, whether it returned (ok) or threw, and what it returned
Ended(name, self, args, ok, ret) ==
    [name |-> name, self |-> self, args |-> args, ok |-> ok, ret |-> ret,
     pc |-> "done", old |-> <<>>]

NoCall == Ended("", 0, <<>>, TRUE, <<>>)

\* mutant: the last slot that holds pred is the one looked up
getIncoming_lastSlot(I, p, pred) ==
    LET at == {k \in 1..Len(I[p].preds) : I[p].preds[k] = pred}
    IN  IF at = {} THEN <<>>
        ELSE <<I[p].uses[CHOOSE k \in at : \A j \in at : j <= k]>>

\* PhiInstr.prototype.getIncoming: the value returned, none when it throws
getIncoming(I, p, pred) ==
    LET at == {k \in 1..Len(I[p].preds) : I[p].preds[k] = pred}
    IN  IF at = {} THEN <<>>
        ELSE <<I[p].uses[CHOOSE k \in at : \A j \in at : k <= j]>>

\* new PhiInstr(values, preds), with arrays of any two lengths
CallPhiInstr ==
    /\ Call
    /\ nInstr < MaxInstr
    /\ \E values \in SeqsUpTo(LiveVals, MaxUses), preds \in SeqsUpTo(BlockIds, MaxUses) :
          IF PhiInstrOk(instr, values, preds)
          THEN /\ instr' = [instr EXCEPT ![nInstr + 1] = PhiInstr(instr, values, preds)]
               /\ nInstr' = nInstr + 1
               /\ call' = Ended("PhiInstr", nInstr + 1, <<values, preds>>, TRUE, <<>>)
          ELSE /\ UNCHANGED <<instr, nInstr>>
               /\ call' = Ended("PhiInstr", 0, <<values, preds>>, FALSE, <<>>)
    /\ UNCHANGED <<constVars, emitVars, makeVars, genVars, objs, shared, arrays, nOps>>

\* p.addIncoming(value, pred), with a value of any type
CallAddIncoming ==
    \E p \in Live, value \in LiveVals, pred \in BlockIds :
        /\ Call
        /\ instr[p].kind = "phi"
        /\ Len(instr[p].uses) < MaxUses
        /\ IF addIncomingOk(instr, p, value)
           THEN /\ instr' = addIncoming(instr, p, value, pred)
                /\ call' = Ended("addIncoming", p, <<value, pred>>, TRUE, <<>>)
           ELSE /\ UNCHANGED instr
                /\ call' = Ended("addIncoming", p, <<value, pred>>, FALSE, <<>>)
        /\ UNCHANGED <<nInstr, constVars, emitVars, makeVars, genVars,
                       objs, shared, arrays, nOps>>

\* p.replPred(oldPred, newPred), with any two blocks
CallReplPred ==
    \E p \in Live, oldPred \in BlockIds, newPred \in BlockIds :
        /\ Call
        /\ instr[p].kind = "phi"
        /\ IF replPredOk(instr, p, oldPred)
           THEN /\ instr' = replPred(instr, p, oldPred, newPred)
                /\ call' = Ended("replPred", p, <<oldPred, newPred>>, TRUE, <<>>)
           ELSE /\ UNCHANGED instr
                /\ call' = Ended("replPred", p, <<oldPred, newPred>>, FALSE, <<>>)
        /\ UNCHANGED <<nInstr, constVars, emitVars, makeVars, genVars,
                       objs, shared, arrays, nOps>>

\* p.getIncoming(pred), with any block
CallGetIncoming ==
    \E p \in Live, pred \in BlockIds :
        /\ Call
        /\ instr[p].kind = "phi"
        /\ call' = Ended("getIncoming", p, <<pred>>, getIncoming(instr, p, pred) # <<>>,
                         getIncoming(instr, p, pred))
        /\ UNCHANGED <<instr, nInstr, constVars, emitVars, makeVars, genVars,
                       objs, shared, arrays, nOps>>

\* ------------------------------------------------------------------------
\* Instruction objects
\* ------------------------------------------------------------------------

\* instruction objects constructed, and calls made on them
MaxObj == 2

MaxOps == 2

\* null and undefined, as an entry of targets or as an argument
NullArg == [k |-> "null", t |-> "", ret |-> "", b |-> 0]

UndefArg == [k |-> "undefined", t |-> "", ret |-> "", b |-> 0]

\* !v
Falsy(v) == v.k \in {"null", "undefined"}

\* array[i], undefined outside the array
At(arr, i) == IF i \in 1..Len(arr) THEN arr[i] ELSE UndefArg

\* the constructors called, the argument lists given to them, and the
\* arguments of the methods
ObjKinds == {"AddInstr", "ThrowInstr", "CallFuncInstr"}

ObjVals == {ValArg("box"), ValArg(pint)}

ObjArgs ==
    {iv \o bt : iv \in SeqsUpTo(ObjVals, 2),
                bt \in SeqsUpTo({BlockArg(b) : b \in BlockIds}, 2)}

TargetArgs == {BlockArg(b) : b \in BlockIds} \cup {NullArg, UndefArg}

\* the object up the prototype chain of an instance that holds the arrays
\* IRInstr() made: the protoObj of the constructor when instrMaker made it
\* with new IRInstr(), else the prototype of the base class (that of
\* ExceptInstr for CallInstr, which has none of its own)
ProtoOf(kind) ==
    LET c == Maker(kind).proto
    IN  IF c = "IRInstr" THEN kind
        ELSE IF c = "CallInstr" THEN "ExceptInstr"
        ELSE c

\* a field that holds an array: the array the object has of its own, by its
\* place among the arrays made, or the one of the prototype object
Own(n) == [proto |-> "", n |-> n]

Inherited(proto) == [proto |-> proto, n |-> 0]

\* function IRInstr(), run for a prototype object
IRInstr == [uses |-> <<>>, dests |-> <<>>, targets |-> <<>>]

Store == [objs |-> objs, shared |-> shared, arrays |-> arrays]

\* this.field, read
Get(S, x, field) ==
    LET r == S.objs[x][field]
    IN  IF r.proto = "" THEN S.arrays[r.n] ELSE S.shared[r.proto][field]

\* a write into the array this.field refers to
Put(S, x, field, content) ==
    LET r == S.objs[x][field]
    IN  IF r.proto = "" THEN [S EXCEPT !.arrays[r.n] = content]
        ELSE [S EXCEPT !.shared[r.proto][field] = content]

\* this.field = a new array
Assign(S, x, field, content) ==
    [S EXCEPT !.arrays = Append(@, content),
              !.objs[x][field] = Own(Len(S.arrays) + 1)]

\* the object new InstrConstr(...) leaves, res being what InstrConstr
\* computed: uses is a new array, targets is one for a constructor with
\* branchNames, dests is never assigned
NewObj(S, kind, res) ==
    LET n    == Len(S.arrays)
        hasT == Maker(kind).branchNames # <<>>
    IN  [objs   |-> Append(S.objs,
                      [kind        |-> kind,
                       mnemonic    |-> res.mnemonic,
                       typeParams  |-> res.typeParams,
                       type        |-> res.type,
                       outName     |-> "",
                       parentBlock |-> NullArg,
                       uses        |-> Own(n + 1),
                       dests       |-> Inherited(ProtoOf(kind)),
                       targets     |-> IF hasT THEN Own(n + 2)
                                       ELSE Inherited(ProtoOf(kind))]),
         shared |-> S.shared,
         arrays |-> IF hasT THEN S.arrays \o <<res.uses, res.targets>>
                    ELSE Append(S.arrays, res.uses)]

\* IRInstr.prototype.replUse, on an object
replUseOf(S, x, oldUse, newUse) ==
    LET u == Get(S, x, "uses")
    IN  Put(S, x, "uses", [k \in 1..Len(u) |-> IF u[k] = oldUse THEN newUse ELSE u[k]])

\* mutant: the destination is added to the array in place, empty or not
addDestOf_inPlace(S, x, dest) ==
    Put(S, x, "dests", arraySetAdd(Get(S, x, "dests"), dest))

\* IRInstr.prototype.addDest, on an object
addDestOf(S, x, dest) ==
    IF Len(Get(S, x, "dests")) = 0
    THEN Assign(S, x, "dests", <<dest>>)
    ELSE Put(S, x, "dests", arraySetAdd(Get(S, x, "dests"), dest))

\* IRInstr.prototype.remDest, on an object
remDestOf(S, x, dest) ==
    Put(S, x, "dests", arraySetRem(Get(S, x, "dests"), dest))

\* IRInstr.prototype.replDest: at the first slot that holds oldDest the
\* right-hand side newdest, a name nothing declares, is evaluated and the
\* call throws before the slot is written
replDest(S, x, oldDest, newDest) ==
    [ok |-> oldDest \notin Range(Get(S, x, "dests")), S |-> S]

\* ExceptInstr.prototype.setThrowTarget, and the first statement of
\* CallInstr.prototype.setContTarget: this.targets[0] = block
setTarget0(S, x, block) ==
    LET t == Get(S, x, "targets")
    IN  Put(S, x, "targets", IF Len(t) = 0 THEN <<block>> ELSE [t EXCEPT ![1] = block])

\* mutant: the throw target is written into slot 0
setThrowTarget_slot0(S, x, catchBlock) == setTarget0(S, x, catchBlock)

\* the first statement of CallInstr.prototype.setThrowTarget
setThrowTarget(S, x, catchBlock) ==
    LET t0 == At(Get(S, x, "targets"), 1)
    IN  Assign(S, x, "targets",
               IF Falsy(catchBlock) THEN <<t0>> ELSE <<t0, catchBlock>>)

\* the test of the while loops: !this.targets[this.targets.length-1]
lastAbsent(S, x) ==
    LET t == Get(S, x, "targets") IN Falsy(At(t, Len(t)))

\* this.targets.pop()
pop(S, x) ==
    LET t == Get(S, x, "targets")
    IN  Put(S, x, "targets", IF Len(t) = 0 THEN t ELSE SubSeq(t, 1, Len(t) - 1))

\* CallInstr.prototype.getContTarget, getThrowTarget
getContTarget(S, x) ==
    LET t == Get(S, x, "targets") IN IF Len(t) > 0 THEN t[1] ELSE NullArg

getThrowTarget(S, x) ==
    LET t == Get(S, x, "targets") IN IF Len(t) > 1 THEN t[2] ELSE NullArg

\* IRInstr.prototype.baseCopy(newInstr); instrId is not modelled
baseCopy(S, x, newInstr) ==
    [S EXCEPT !.objs[newInstr].mnemonic    = S.objs[x].mnemonic,
              !.objs[newInstr].outName     = S.objs[x].outName,
              !.objs[newInstr].parentBlock = NullArg]

\* InstrConstr.prototype.copy: the constructor is run on the type
\* parameters, uses and targets
copy(S, x) ==
    LET copyArgs == S.objs[x].typeParams \o Get(S, x, "uses") \o Get(S, x, "targets")
        res      == InstrConstr(S.objs[x].kind, copyArgs)
    IN  [ok |-> res.state = "ok",
         S  |-> IF res.state = "ok"
                THEN baseCopy(NewObj(S, S.objs[x].kind, res), x, Len(S.objs) + 1)
                ELSE S]

InitObj ==
    /\ objs = <<>>
    /\ shared = [p \in {ProtoOf(kind) : kind \in ObjKinds} |-> IRInstr]
    /\ arrays = <<>>
    /\ nOps = 0
    /\ call = NoCall

Objs == 1..Len(objs)

\* no call is in progress
Idle == call.pc = "done"

Op == Idle /\ nOps < MaxOps /\ nOps' = nOps + 1

SetStore(S) == objs' = S.objs /\ shared' = S.shared /\ arrays' = S.arrays

\* new <kind>(inputs)
ObjNew ==
    /\ Idle
    /\ Len(objs) < MaxObj
    /\ \E kind \in ObjKinds, inputs \in ObjArgs :
          LET res == InstrConstr(kind, inputs)
          IN  IF res.state = "ok"
              THEN /\ SetStore(NewObj(Store, kind, res))
                   /\ call' = Ended("new", Len(objs) + 1, <<>>, TRUE, <<>>)
              ELSE /\ UNCHANGED <<objs, shared, arrays>>
                   /\ call' = Ended("new", 0, <<>>, FALSE, <<>>)
    /\ UNCHANGED <<irVars, constVars, emitVars, makeVars, genVars, nOps>>

\* x.replUse(oldUse, newUse)
ObjReplUse ==
    /\ Op
    /\ \E x \in Objs, oldUse \in ObjVals, newUse \in ObjVals :
          /\ SetStore(replUseOf(Store, x, oldUse, newUse))
          /\ call' = Ended("replUse", x, <<oldUse, newUse>>, TRUE, <<>>)
    /\ UNCHANGED <<irVars, constVars, emitVars, makeVars, genVars>>

\* x.addDest(dest)
ObjAddDest ==
    /\ Op
    /\ \E x \in Objs, dest \in 1..MaxObj :
          /\ SetStore(addDestOf(Store, x, dest))
          /\ call' = Ended("addDest", x, <<dest>>, TRUE, <<>>)
    /\ UNCHANGED <<irVars, constVars, emitVars, makeVars, genVars>>

\* x.remDest(dest)
ObjRemDest ==
    /\ Op
    /\ \E x \in Objs, dest \in 1..MaxObj :
          /\ SetStore(remDestOf(Store, x, dest))
          /\ call' = Ended("remDest", x, <<dest>>, TRUE, <<>>)
    /\ UNCHANGED <<irVars, constVars, emitVars, makeVars, genVars>>

\* x.replDest(oldDest, newDest)
ObjReplDest ==
    /\ Op
    /\ \E x \in Objs, oldDest \in 1..MaxObj, newDest \in 1..MaxObj :
          LET r == replDest(Store, x, oldDest, newDest)
          IN  /\ SetStore(r.S)
              /\ call' = Ended("replDest", x, <<oldDest, newDest>>, r.ok, <<>>)
    /\ UNCHANGED <<irVars, constVars, emitVars, makeVars, genVars>>

\* a setter of CallInstr.prototype has run its first statement and is at
\* the test of its loop; old holds what the getters returned before
AtLoop(name, x, arg) ==
    [name |-> name, self |-> x, args |-> <<arg>>, ok |-> TRUE, ret |-> <<>>,
     pc |-> "test", old |-> <<getContTarget(Store, x), getThrowTarget(Store, x)>>]

\* x.setContTarget(contBlock), up to the loop
ObjSetContTarget ==
    /\ Op
    /\ \E x \in Objs, contBlock \in TargetArgs :
          /\ Maker(objs[x].kind).proto = "CallInstr"
          /\ SetStore(setTarget0(Store, x, contBlock))
          /\ call' = AtLoop("setContTarget", x, contBlock)
    /\ UNCHANGED <<irVars, constVars, emitVars, makeVars, genVars>>

\* x.setThrowTarget(catchBlock): that of CallInstr up to the loop, that of
\* ExceptInstr whole
ObjSetThrowTarget ==
    /\ Op
    /\ \E x \in Objs, catchBlock \in TargetArgs :
          \/ /\ Maker(objs[x].kind).proto = "CallInstr"
             /\ SetStore(setThrowTarget(Store, x, catchBlock))
             /\ call' = AtLoop("setThrowTarget", x, catchBlock)
          \/ /\ Maker(objs[x].kind).proto = "ExceptInstr"
             /\ SetStore(setTarget0(Store, x, catchBlock))
             /\ call' = Ended("setThrowTarget", x, <<catchBlock>>, TRUE, <<>>)
    /\ UNCHANGED <<irVars, constVars, emitVars, makeVars, genVars>>

\* the test of the while loop of a setter: on to the pop, or return
LoopTest ==
    /\ call.pc = "test"
    /\ call' = [call EXCEPT !.pc = IF lastAbsent(Store, call.self) THEN "pop" ELSE "done"]
    /\ UNCHANGED <<irVars, constVars, emitVars, makeVars, genVars,
                   objs, shared, arrays, nOps>>

\* the body of the while loop of a setter
LoopPop ==
    /\ call.pc = "pop"
    /\ SetStore(pop(Store, call.self))
    /\ call' = [call EXCEPT !.pc = "test"]
    /\ UNCHANGED <<irVars, constVars, emitVars, makeVars, genVars, nOps>>

\* x.copy()
ObjCopy ==
    /\ Op
    /\ \E x \in Objs :
          LET c == copy(Store, x)
          IN  /\ c.ok => Len(objs) < MaxObj
              /\ SetStore(c.S)
              /\ call' = Ended("copy", x, <<>>, c.ok,
                               IF c.ok THEN <<Len(objs) + 1>> ELSE <<>>)
    /\ UNCHANGED <<irVars, constVars, emitVars, makeVars, genVars>>

\* ------------------------------------------------------------------------
\* Specifications
\* ------------------------------------------------------------------------

\* nothing constructed, an empty constant table, no function compiled
StartIR == InitIR /\ InitConst /\ IdleEmit /\ InitMake /\ InitGen /\ InitObj

\* a function and its allocation plan, before irToASM
StartEmit == InitIR /\ InitConst /\ InitEmit /\ InitMake /\ InitGen /\ InitObj

\* a function with one move on every edge, before irToASM
StartRun == InitIR /\ InitConst /\ InitRun /\ InitMake /\ InitGen /\ InitObj

\* the use/def graph under every constructor and method
NextIR == NewPhi \/ NewAdd \/ AddIncoming \/ ReplPred \/ ReplUse \/ AddDest \/ RemDest

SpecIR == StartIR /\ [][NextIR]_vars

\* the use/def graph under constructions, addIncoming and remDest only
NextLink == NewPhi \/ NewAdd \/ AddIncoming \/ RemDest

SpecLink == StartIR /\ [][NextLink]_vars

\* the constant table
NextConst == GetConst

SpecConst == StartIR /\ [][NextConst]_vars

\* emission of one function
NextEmit == IrToASM

SpecEmit == StartEmit /\ [][NextEmit]_vars

\* emission of one function and the execution of what was emitted
NextRun == IrToASM \/ ExecStart \/ ExecNext \/ ExecJump \/ ExecFall \/ ExecRet

SpecRun == StartRun /\ [][NextRun]_vars

\* one call of an instruction constructor
NextMake == Construct

SpecMake == StartIR /\ [][NextMake]_vars

\* code generation for one mod or if instruction and its execution
NextGen == GenMod \/ GenIf \/ GenCmp \/ GenJump

SpecGen == StartIR /\ [][NextGen]_vars

\* the phi node under calls that may fail
NextPhi == CallPhiInstr \/ CallAddIncoming \/ CallReplPred \/ CallGetIncoming

SpecPhi == StartIR /\ [][NextPhi]_vars

\* instruction objects under the calls of their methods
NextObj ==
    \/ ObjNew \/ ObjReplUse \/ ObjAddDest \/ ObjRemDest \/ ObjReplDest
    \/ ObjSetContTarget \/ ObjSetThrowTarget \/ LoopTest \/ LoopPop \/ ObjCopy

SpecObj == StartIR /\ [][NextObj]_vars

\* a call in progress goes on: the loop of a setter is run by the caller's
\* thread, which nothing suspends
SpecObjLive == SpecObj /\ WF_vars(LoopTest \/ LoopPop)

\* ------------------------------------------------------------------------
\* Properties
\* ------------------------------------------------------------------------

C2_PhiUniform ==
    \A p \in Live :
        instr[p].kind = "phi" =>
            /\ Len(instr[p].uses) = Len(instr[p].preds)
            /\ \A k \in 1..Len(instr[p].uses) :
                  TypeOf(instr, instr[p].uses[k]) = instr[p].type

\* the type a call asks for
AskedType(c) == IF c.typeArg = "undefined" THEN "box" ELSE c.typeArg

Returned == {k \in 1..Len(getCalls) : getCalls[k].ret # 0}

\* C3: two getConst calls with equal value and the same type (an omitted
\* type meaning box) return the identical constant; two calls with the same
\* value but different types return distinct constants, each carrying the
\* requested type
C3_ConstUnique ==
    \A i \in Returned, j \in Returned :
        LET a == getCalls[i]
            b == getCalls[j]
        IN  a.value = b.value =>
              /\ AskedType(a) = AskedType(b) => a.ret = b.ret
              /\ AskedType(a) # AskedType(b) =>
                    /\ a.ret # b.ret
                    /\ constHeap[a.ret].type = AskedType(a)
                    /\ constHeap[b.ret].type = AskedType(b)

\* one value was asked for three times: with box, with the type left out and
\* with another type
C3_Witness ==
    \E i \in Returned, j \in Returned, k \in Returned :
        /\ i < j /\ j < k
        /\ getCalls[i].value = getCalls[j].value
        /\ getCalls[i].value = getCalls[k].value
        /\ {getCalls[i].typeArg, getCalls[j].typeArg} = {"undefined", "box"}
        /\ getCalls[k].typeArg = "i32"

\* the index of the final instruction of block b
TermIdx(b) == Len(Instrs(term, body, b))

\* C4: followed along control flow, the merge moves of an edge (P,S) are
\* executed only on a transfer from P's terminator to S, after that
\* terminator and before S's first instruction; none is executed on the path
\* from the prologue to the first instruction of the first block
C4_MergeOnlyOnEdge ==
    Running =>
        /\ asm[ip].by.part = "merge" =>
              /\ lastGen = By("gen", asm[ip].by.a, TermIdx(asm[ip].by.a), 0)
              /\ pending \in {NoLabel, EdgeLabel(asm[ip].by.a, asm[ip].by.b)}
        /\ (asm[ip].by.part \in {"premove", "gen"} /\ pending # NoLabel) =>
              asm[ip].by.a = pending.s

Jumps == CondJumps \cup {"jmp"}

\* C5: after irToASM every block label has been added to the stream exactly
\* once and every edge label an emitted jump refers to has been added
\* exactly once
C5_LabelsOnce ==
    emitState = "done" =>
        /\ \A b \in BlockIds : Cardinality(LabelAt(BlockLabel(b))) = 1
        /\ \A i \in 1..Len(asm) :
              (asm[i].op \in Jumps /\ asm[i].lbl.k = "edge") =>
                  Cardinality(LabelAt(asm[i].lbl)) = 1

\* a jump and an if were emitted, each with jumps to edge labels
C5_Witness ==
    /\ emitState = "done"
    /\ \E i \in 1..Len(asm), j \in 1..Len(asm) :
          /\ asm[i].op = "jl" /\ asm[i].lbl.k = "edge"
          /\ asm[j].op = "jmp" /\ asm[j].by.part = "gen"
          /\ term[asm[j].by.a].kind = "jump"

\* the stub of edge (p, s) starts at i, and only stubs of edges into s stand
\* between it and the label of block s
InlineAt(i, s) ==
    \E l \in LabelAt(BlockLabel(s)) :
        /\ i < l
        /\ \A j \in i..(l - 1) :
              asm[j].by.part \in {"stub", "merge"} /\ asm[j].by.b = s

\* C6: the stub of every CFG edge (P,S) is emitted at exactly one place:
\* directly after P's instructions when P has exactly one successor, and
\* otherwise before S's block label, with nothing but stubs of edges into S
\* in between
C6_StubPlace ==
    emitState = "done" =>
        \A e \in Edges(term) :
            /\ Cardinality(LabelAt(EdgeLabel(e[1], e[2]))) = 1
            /\ \A i \in LabelAt(EdgeLabel(e[1], e[2])) :
                  IF Len(Succs(term, e[1])) = 1
                  THEN i > 1 /\ asm[i-1].by = By("gen", e[1], TermIdx(e[1]), 0)
                  ELSE InlineAt(i, e[2])

\* one edge leaves a block with a single successor and another a block with
\* two successors
C6_Witness ==
    /\ emitState = "done"
    /\ \E e \in Edges(term), f \in Edges(term) :
          /\ Len(Succs(term, e[1])) = 1
          /\ Len(Succs(term, f[1])) = 2
          /\ LabelAt(EdgeLabel(e[1], e[2])) # {}
          /\ LabelAt(EdgeLabel(f[1], f[2])) # {}

\* the assembler call that implements an abstract move
Lowers(item, move) ==
    \/ /\ move.src.k \in {"reg", "mem"}
       /\ item.op = "mov" /\ item.dst = move.dst /\ item.src = move.src
    \/ /\ move.src.k = "const" /\ move.src.bits # 0
       /\ item.op = "mov" /\ item.dst = move.dst /\ item.src = Imm(move.src.n)
    \/ /\ move.src.k = "const" /\ move.src.bits = 0
       /\ item.op = "nop"

\* C7: every edge-transition stub is, in this order, the edge label of
\* (pred, succ), one lowered move for each merge move of that edge in the
\* order of the plan's list, and an unconditional jump to succ's block label
C7_StubShape ==
    emitState = "done" =>
        \A i \in 1..Len(asm) :
            (asm[i].op = "label" /\ asm[i].lbl.k = "edge") =>
                LET n == Len(mergeMv)
                    p == asm[i].lbl.p
                    s == asm[i].lbl.s
                IN  /\ i + n + 1 <= Len(asm)
                    /\ \A k \in 1..n :
                          /\ asm[i+k].by = By("merge", p, s, k)
                          /\ Lowers(asm[i+k], mergeMv[k])
                    /\ asm[i+n+1].op = "jmp"
                    /\ asm[i+n+1].lbl = BlockLabel(s)

\* a stub with two different merge moves was emitted
C7_Witness ==
    /\ emitState = "done"
    /\ Len(mergeMv) = 2
    /\ mergeMv[1] # mergeMv[2]
    /\ \E i \in 1..Len(asm) : asm[i].op = "label" /\ asm[i].lbl.k = "edge"

\* the places of the stream that hold code of block b
CodeOf(b) ==
    {i \in 1..Len(asm) : asm[i].by.part \in {"premove", "gen"} /\ asm[i].by.a = b}

\* the number of assembler calls of an instruction's genCode
GenLen(kind) ==
    CASE kind = "add"  -> 1
      [] kind = "jump" -> 1
      [] kind = "if"   -> 3
      [] kind = "ret"  -> Len(calleeSave) + (IF spillSize # 0 THEN 1 ELSE 0) + 1

\* C8: within each block code is emitted in instruction order: for every
\* non-pseudo instruction all its preMoves in order, then its genCode once,
\* before any preMove of a later instruction; for arg, get_num_args,
\* get_arg_table and phi instructions neither preMoves nor genCode
C8_BlockOrder ==
    emitState = "done" =>
        \A b \in BlockIds :
            /\ \A i \in CodeOf(b), j \in CodeOf(b) :
                  i < j =>
                     /\ asm[i].by.b <= asm[j].by.b
                     /\ asm[i].by.b = asm[j].by.b =>
                           /\ ~(asm[i].by.part = "gen" /\ asm[j].by.part = "premove")
                           /\ asm[i].by.part = "premove" /\ asm[j].by.part = "premove"
                                 => asm[i].by.k < asm[j].by.k
            /\ \A x \in 1..TermIdx(b) :
                  LET kind == Instrs(term, body, b)[x]
                      pre  == {i \in CodeOf(b) :
                                  asm[i].by.b = x /\ asm[i].by.part = "premove"}
                      gen  == {i \in CodeOf(b) :
                                  asm[i].by.b = x /\ asm[i].by.part = "gen"}
                  IN  IF kind \in PseudoKinds
                      THEN pre = {} /\ gen = {}
                      ELSE /\ Cardinality(pre) = Len(preMv)
                           /\ \A k \in 1..Len(preMv) :
                                 \E i \in pre :
                                    asm[i].by.k = k /\ Lowers(asm[i], preMv[k])
                           /\ Cardinality(gen) = GenLen(kind)

\* a block with a pseudo-instruction and an add, each instruction with two
\* different preMoves
C8_Witness ==
    /\ emitState = "done"
    /\ Len(body) = 2
    /\ body[1] \in PseudoKinds
    /\ body[2] = "add"
    /\ Len(preMv) = 2
    /\ preMv[1] # preMv[2]

MemToMem(move) == move.src.k = "mem" /\ move.dst.k = "mem"

\* C9: no mov emitted during irToASM has a memory location as both source
\* and destination; an abstract move whose src and dst are both memory
\* locations aborts emission instead of emitting a mov
C9_NoMemMem ==
    /\ \A i \in 1..Len(asm) :
          asm[i].op = "mov" => ~(asm[i].dst.k = "mem" /\ asm[i].src.k = "mem")
    /\ (emitState # "init" /\ \E m \in Range(preMv) \cup Range(mergeMv) : MemToMem(m))
          => emitState = "aborted"

\* emission stopped at a memory to memory move that came second in its list,
\* after movs from and to memory had been emitted
C9_Witness ==
    /\ emitState = "aborted"
    /\ Len(mergeMv) = 2
    /\ mergeMv[1].src.k = "mem"
    /\ MemToMem(mergeMv[2])
    /\ \E i \in 1..Len(asm) : asm[i].op = "mov" /\ asm[i].src.k = "mem"
    /\ \E i \in 1..Len(asm) : asm[i].op = "mov" /\ asm[i].dst.k = "mem"

\* the number of stack pointer adjustments: one iff spillSize is non-zero
SpillOps == IF spillSize # 0 THEN 1 ELSE 0

\* C10: irToASM first subtracts spillSize from the stack pointer iff it is
\* non-zero and then stores each callee-save register to its stack-map
\* offset, before any block label; each ret loads every callee-save register
\* from the offset it was stored to, then adds spillSize back iff it is
\* non-zero, and last emits ret
C10_FrameSymmetric ==
    emitState = "done" =>
        LET n == Len(calleeSave)
        IN  /\ Len(asm) > SpillOps + n
            /\ spillSize # 0 =>
                  /\ asm[1].op = "sub"
                  /\ asm[1].dst = Reg(spReg)
                  /\ asm[1].src = Imm(spillSize)
            /\ \A k \in 1..n :
                  /\ asm[SpillOps + k].op = "mov"
                  /\ asm[SpillOps + k].src = Reg(calleeSave[k])
                  /\ asm[SpillOps + k].dst.k = "mem"
                  /\ asm[SpillOps + k].dst.r = spReg
            /\ asm[SpillOps + n + 1].op = "label"
            /\ \A i \in 1..Len(asm) : asm[i].op = "label" => i > SpillOps + n
            /\ \A r \in 1..Len(asm) :
                  asm[r].op = "ret" =>
                     /\ r > SpillOps + n
                     /\ {i \in 1..Len(asm) : asm[i].by = asm[r].by}
                           = (r - SpillOps - n)..r
                     /\ spillSize # 0 =>
                           /\ asm[r-1].op = "add"
                           /\ asm[r-1].dst = Reg(spReg)
                           /\ asm[r-1].src = Imm(spillSize)
                     /\ \A k \in 1..n :
                           LET load == asm[r - SpillOps - n - 1 + k]
                           IN  /\ load.op = "mov"
                               /\ load.dst = Reg(calleeSave[k])
                               /\ load.src = asm[SpillOps + k].dst

\* a ret was emitted for a frame with spill space and two saved registers
C10_Witness ==
    /\ emitState = "done"
    /\ spillSize # 0
    /\ Len(calleeSave) = 2
    /\ \E r \in 1..Len(asm) : asm[r].op = "ret"

\* the elements of an argument list that are type objects, IR values, blocks
TypesIn(s) == SelectSeq(s, LAMBDA x : x.k = "type")

ValsIn(s) == SelectSeq(s, LAMBDA x : x.k \in IRValueKinds)

BlocksIn(s) == SelectSeq(s, LAMBDA x : x.k = "block")

\* a run of type objects, then a run of IR values, then a run of blocks
IsRuns(s) == s = TypesIn(s) \o ValsIn(s) \o BlocksIn(s)

Called == made.res.state # "none"

Accepted == made.res.state = "ok"

\* C11: a constructor accepts an argument sequence only if it is a run of
\* type objects, then a run of IR values, then a run of basic blocks; any
\* other sequence is rejected; on acceptance the three runs become
\* typeParams, uses and branch targets in their original order
C11_ArgRuns ==
    Called =>
        /\ ~IsRuns(made.inputs) => ~Accepted
        /\ Accepted =>
              /\ made.res.typeParams = TypesIn(made.inputs)
              /\ made.res.uses = ValsIn(made.inputs)
              /\ made.res.targets = BlocksIn(made.inputs)

\* the mnemonic name of the instructions of a kind
MnemonicName(kind) ==
    CASE kind = "CallFuncInstr"  -> "call"
      [] kind = "ConstructInstr" -> "construct"
      [] OTHER                   -> Maker(kind).mnemonic

\* C12: for every kind built by instrMaker, call and construct included,
\* when the initialiser rejects the arguments the constructor throws a
\* diagnostic that contains the instruction's mnemonic name
C12_DiagnosticNamesInstr ==
    made.res.state = "init" => made.res.named = MnemonicName(made.kind)

\* C13: a construction with a number of branch targets that does not match
\* the kind is rejected: a non-branching kind given one or more targets, and
\* an overflow-arithmetic kind given other than two targets
C13_TargetArity ==
    (Called /\ IsRuns(made.inputs)) =>
        /\ (Maker(made.kind).branchNames = <<>> /\ BlocksIn(made.inputs) # <<>>)
              => ~Accepted
        /\ (Maker(made.kind).proto = "ArithOvfInstr" /\ Len(BlocksIn(made.inputs)) # 2)
              => ~Accepted

\* C14: mul_ovf(a:pint, b:pint) with targets [normal, overflow] constructs
\* and reports isBranch() true; with a single target construction fails
C14_MulOvfTargets ==
    (Called /\ made.kind = "MulOvfInstr"
            /\ ValsIn(made.inputs) = <<ValArg(pint), ValArg(pint)>>
            /\ TypesIn(made.inputs) = <<>>
            /\ IsRuns(made.inputs)) =>
        /\ Len(BlocksIn(made.inputs)) = 2 => Accepted /\ isBranch(made.kind, made.res)
        /\ Len(BlocksIn(made.inputs)) = 1 => ~Accepted

\* the types of a list of type parameters or input values, in order
TypeNames(s) == [j \in 1..Len(s) |-> s[j].t]

\* C15: for a kind without a caller-set mnemonic the mnemonic is the base
\* name followed by the type parameters in order if any exist; otherwise by
\* the single common input type if all input types are the same and not box;
\* otherwise by every input type in order
C15_MnemonicSuffix ==
    (Accepted /\ Maker(made.kind).mnemonic # "undefined") =>
        LET tp == TypeNames(made.res.typeParams)
            iv == TypeNames(made.res.uses)
        IN  made.res.mnemonic =
              <<Maker(made.kind).mnemonic>> \o
                 (IF tp # <<>> THEN tp
                  ELSE IF iv # <<>> /\ Range(iv) = {iv[1]} /\ iv[1] # "box"
                  THEN <<iv[1]>>
                  ELSE iv)

\* C15, with the boxed case: nothing is appended when there are no type
\* parameters and the inputs are all of type box, or there are no inputs
C15_MnemonicSuffixBox ==
    (Accepted /\ Maker(made.kind).mnemonic # "undefined") =>
        LET tp == TypeNames(made.res.typeParams)
            iv == TypeNames(made.res.uses)
        IN  made.res.mnemonic =
              <<Maker(made.kind).mnemonic>> \o
                 (IF tp # <<>> THEN tp
                  ELSE IF Range(iv) \subseteq {"box"} THEN <<>>
                  ELSE IF Cardinality(Range(iv)) = 1 THEN <<iv[1]>>
                  ELSE iv)

\* an add of two boxed values was constructed
C15_Witness ==
    /\ Accepted
    /\ made.kind = "AddInstr"
    /\ made.inputs = <<ValArg("box"), ValArg("box")>>

\* C16: add with inputs of types (rptr, pint) constructs with output type
\* rptr and mnemonic 'add'
C16_AddPtrPlain ==
    (Called /\ made.kind = "AddInstr"
            /\ made.inputs = <<ValArg("rptr"), ValArg(pint)>>) =>
        /\ Accepted
        /\ made.res.type = "rptr"
        /\ made.res.mnemonic = <<"add">>

\* C16, with the name the constructor gives: the base name followed by both
\* input types
C16_AddPtrNamed ==
    (Called /\ made.kind = "AddInstr"
            /\ made.inputs = <<ValArg("rptr"), ValArg(pint)>>) =>
        /\ Accepted
        /\ made.res.type = "rptr"
        /\ made.res.mnemonic = <<"add", "rptr", pint>>

\* add was called with a pointer and an offset
C16_Witness ==
    /\ Called
    /\ made.kind = "AddInstr"
    /\ made.inputs = <<ValArg("rptr"), ValArg(pint)>>
    /\ made.res.uses = made.inputs

ArithKinds == {"AddInstr", "SubInstr", "MulInstr", "DivInstr", "ModInstr"}

\* C17: for every pair of input types (t0, t1), add/sub/mul/div/mod
\* construction is accepted exactly when t0 = t1 and t0 is box or numeric, or
\* for add when (t0, t1) = (rptr, pint), or for sub when (t0, t1) is
\* (rptr, pint) or (rptr, rptr); the output type is t0 in every accepted case
\* except sub(rptr, rptr), whose output type is pint
C17_ArithTypes ==
    (Called /\ made.kind \in ArithKinds
            /\ Len(made.inputs) = 2 /\ ValsIn(made.inputs) = made.inputs) =>
        LET t0 == made.inputs[1].t
            t1 == made.inputs[2].t
        IN  /\ Accepted <=>
                 \/ t0 = t1 /\ t0 \in IRType \ {"none", "rptr"}
                 \/ made.kind \in {"AddInstr", "SubInstr"} /\ <<t0, t1>> = <<"rptr", pint>>
                 \/ made.kind = "SubInstr" /\ <<t0, t1>> = <<"rptr", "rptr">>
            /\ Accepted =>
                 made.res.type =
                    IF made.kind = "SubInstr" /\ <<t0, t1>> = <<"rptr", "rptr">>
                    THEN pint ELSE t0

\* the difference of two pointers was constructed
C17_Witness ==
    /\ Accepted
    /\ made.kind = "SubInstr"
    /\ made.inputs = <<ValArg("rptr"), ValArg("rptr")>>
    /\ made.res.type = pint

\* C18: a newly constructed instruction has sideEffects true if and only if
\* its kind is one of del_prop_val, put_cell, put_clos, store, set_ctx, jump
\* or a call-family kind (call, construct, put_prop_val, get_prop_val)
C18_SideEffects ==
    Accepted =>
        (made.res.sideEffects <=>
            MnemonicName(made.kind) \in
               {"del_prop_val", "put_cell", "put_clos", "store", "set_ctx", "jump",
                "call", "construct", "put_prop_val", "get_prop_val"})

\* the type a call yields: the declared return type of input 0, else box
CalleeType(uses) == IF uses[1].ret \in IRType THEN uses[1].ret ELSE "box"

\* C19: call construction is accepted only with at least two inputs all of
\* which (function, this, and every further argument) have type box; the
\* output type is the callee's declared return type when input 0 carries one
\* and box otherwise
C19_CallAllBoxed ==
    (Accepted /\ made.kind = "CallFuncInstr") =>
        /\ Len(made.res.uses) >= 2
        /\ \A j \in 1..Len(made.res.uses) : made.res.uses[j].t = "box"
        /\ made.res.type = CalleeType(made.res.uses)

\* C19, for the function and this only: call construction is accepted only
\* with at least two inputs of which the first two have type box; the output
\* type is the callee's declared return type when input 0 carries one and box
\* otherwise
C19_CallFuncThisBoxed ==
    (Accepted /\ made.kind = "CallFuncInstr") =>
        /\ Len(made.res.uses) >= 2
        /\ made.res.uses[1].t = "box"
        /\ made.res.uses[2].t = "box"
        /\ made.res.type = CalleeType(made.res.uses)

\* a function with a declared return type was called with an unboxed argument
C19_Witness ==
    /\ Accepted
    /\ made.kind = "CallFuncInstr"
    /\ made.inputs = <<FuncArg(pint), ValArg("box"), ValArg(pint)>>
    /\ made.res.type = pint

\* C20: itof accepts exactly one type parameter f64 with exactly one input
\* of type pint and yields f64, ftoi accepts exactly one type parameter pint
\* with exactly one input of type f64 and yields pint; every other
\* combination of type parameters and inputs is rejected
C20_Conversions ==
    (Called /\ IsRuns(made.inputs) /\ BlocksIn(made.inputs) = <<>>) =>
        /\ made.kind = "IToFPInstr" =>
              /\ Accepted <=> made.inputs = <<TypeArg("f64"), ValArg(pint)>>
              /\ Accepted => made.res.type = "f64"
        /\ made.kind = "FPToIInstr" =>
              /\ Accepted <=> made.inputs = <<TypeArg(pint), ValArg("f64")>>
              /\ Accepted => made.res.type = pint

\* the abstract move that an emitted item was lowered from
MoveOf(item) ==
    IF item.by.part = "premove" THEN preMv[item.by.k] ELSE mergeMv[item.by.k]

\* C25: insertMove emits exactly one mov into the destination for every
\* abstract move: a register/memory mov when the source is an x86 operand,
\* an immediate mov when the source is a constant whose immediate size fits
\* the register width, and a wide-immediate mov for any other constant
C25_MovForEveryMove ==
    \A i \in 1..Len(asm) :
        asm[i].by.part \in {"premove", "merge"} =>
            /\ asm[i].op = "mov"
            /\ asm[i].dst = MoveOf(asm[i]).dst
            /\ asm[i].src = IF MoveOf(asm[i]).src.k = "const"
                            THEN Imm(MoveOf(asm[i]).src.n)
                            ELSE MoveOf(asm[i]).src

\* C26: code generation for mod selects the division form from the
\* instruction's output type: for an unsigned type a move of 0 into rdx/edx
\* followed by div of operand 1, for a signed type cqo (64-bit) or cdq
\* (32-bit) followed by idiv of operand 1; exactly one of the two sequences
\* is emitted for every mod instruction
C26_ModDivisionForm ==
    codegen.kind = "mod" =>
        /\ Len(codegen.code) = 2
        /\ IF isUnsigned(codegen.type)
           THEN /\ codegen.code[1].op = "mov"
                /\ codegen.code[1].dst = Reg(IF codegen.x86_64 THEN "rdx" ELSE "edx")
                /\ codegen.code[1].src = Imm(0)
                /\ codegen.code[2].op = "div"
           ELSE /\ codegen.code[1].op = IF codegen.x86_64 THEN "cqo" ELSE "cdq"
                /\ codegen.code[2].op = "idiv"
        /\ codegen.code[2].dst = codegen.opnds[2]

\* a op b for the values the bit patterns a and b stand for in a type
Holds(testOp, type, a, b) ==
    LET x == IF isUnsigned(type) THEN a ELSE Signed(a)
        y == IF isUnsigned(type) THEN b ELSE Signed(b)
    IN  CASE testOp = "LT" -> x < y
          [] testOp = "EQ" -> x = y
          [] testOp = "NE" -> x # y

\* C28: for an if instruction with test operation LT, EQ or NE over operand
\* values a and b, the emitted cmp / conditional jump / jmp sequence
\* transfers control to the then-edge label exactly when (a op b) holds and
\* to the else-edge label otherwise, also when a = b, both when operand 0 is
\* an immediate and when it is not
C28_IfTransfers ==
    (codegen.kind = "if" /\ codegen.testOp \in {"LT", "EQ", "NE"} /\ codegen.at # NoLabel) =>
        codegen.at = IF Holds(codegen.testOp, codegen.type, codegen.a, codegen.b)
                 THEN EdgeLabel(1, GenTargets[1])
                 ELSE EdgeLabel(1, GenTargets[2])

\* C21: a phi constructed with no inputs has type none; the first
\* addIncoming(v, p) sets the phi's type to v.type; a later addIncoming whose
\* value type differs from the existing inputs' type (the one type all of
\* them have) fails and leaves uses, preds, type and the value's dests
\* unchanged
C21_PhiTyping ==
    [][/\ (call'.name = "PhiInstr" /\ call'.ok /\ call'.args[1] = <<>>)
            => instr'[call'.self].type = "none"
       /\ call'.name = "addIncoming" =>
            LET p == call'.self
                v == call'.args[1]
            IN  IF instr[p].uses = <<>>
                THEN call'.ok /\ instr'[p].type = TypeOf(instr, v)
                ELSE (/\ \A k \in 1..Len(instr[p].uses) :
                            TypeOf(instr, instr[p].uses[k]) = TypeOf(instr, instr[p].uses[1])
                      /\ TypeOf(instr, v) # TypeOf(instr, instr[p].uses[1]))
                     => ~call'.ok /\ instr' = instr]_vars

\* an addIncoming with a value of another type has failed
C21_Witness ==
    /\ call.name = "addIncoming"
    /\ ~call.ok
    /\ instr[call.self].uses # <<>>
    /\ TypeOf(instr, call.args[1]) # instr[call.self].type

\* C22: for a phi with predecessor old present and predecessor new not
\* present, replPred(old, new) leaves uses unchanged and afterwards
\* getIncoming(new) returns the value getIncoming(old) returned before;
\* replPred and getIncoming with a block that is not a predecessor fail
\* without changing the phi
C22_ReplPredKeepsUse ==
    [][/\ call'.name = "replPred" =>
            LET p  == call'.self
                o  == call'.args[1]
                n  == call'.args[2]
            IN  (o \in Range(instr[p].preds) /\ n \notin Range(instr[p].preds)) =>
                    /\ call'.ok
                    /\ instr'[p].uses = instr[p].uses
                    /\ getIncoming(instr', p, n) = getIncoming(instr, p, o)
                    /\ getIncoming(instr, p, o) # <<>>
       /\ (/\ call'.name \in {"replPred", "getIncoming"}
           /\ call'.args[1] \notin Range(instr[call'.self].preds))
            => ~call'.ok /\ instr' = instr]_vars

\* a predecessor that occurs twice, with different values, was replaced
C22_Witness ==
    /\ call.name = "replPred"
    /\ call.ok
    /\ call.args[1] # call.args[2]
    /\ Len(instr[call.self].uses) = 2
    /\ instr[call.self].uses[1] # instr[call.self].uses[2]
    /\ call.args[2] \in Range(instr[call.self].preds)
    /\ call.args[1] \in Range(instr[call.self].preds)

\* a setter of CallInstr.prototype has returned
SetterDone ==
    /\ call.pc = "done"
    /\ call.name \in {"setContTarget", "setThrowTarget"}
    /\ call.old # <<>>

\* the same block, or no block both times
SameTarget(a, b) == a = b \/ (Falsy(a) /\ Falsy(b))

\* C23: on a call-family instruction setThrowTarget(b) makes
\* getThrowTarget() return b and leaves the continue target unchanged, and
\* setContTarget(c) makes getContTarget() return c and leaves the throw
\* target unchanged; the continue role is at index 0 and the throw role at
\* index 1 of targets; after either setter targets does not end with an
\* absent entry; a setter given a block returns without popping
C23_TargetSetters ==
    /\ SetterDone =>
          LET x == call.self
              t == Get(Store, x, "targets")
          IN  /\ call.name = "setThrowTarget" =>
                    /\ SameTarget(getThrowTarget(Store, x), call.args[1])
                    /\ SameTarget(getContTarget(Store, x), call.old[1])
              /\ call.name = "setContTarget" =>
                    /\ SameTarget(getContTarget(Store, x), call.args[1])
                    /\ SameTarget(getThrowTarget(Store, x), call.old[2])
              /\ SameTarget(getContTarget(Store, x), At(t, 1))
              /\ SameTarget(getThrowTarget(Store, x), At(t, 2))
              /\ Len(t) > 0 => ~Falsy(t[Len(t)])
    /\ call.pc = "pop" => Falsy(call.args[1])

\* setThrowTarget has replaced one catch block by another on a call that
\* has a continue target
C23_Witness ==
    /\ SetterDone
    /\ call.name = "setThrowTarget"
    /\ ~Falsy(call.args[1])
    /\ ~Falsy(call.old[1])
    /\ ~Falsy(call.old[2])
    /\ call.old[2] # call.args[1]

\* C24: for every instruction reachable by construction followed by
\* replUse, setContTarget and setThrowTarget calls, copy() succeeds and
\* returns an instruction with the same mnemonic, type parameters, uses,
\* targets and output name, with parentBlock null and dests empty
C24_CopySucceeds ==
    [][call'.name = "copy" =>
          /\ call'.ok
          /\ LET x == call'.self
                  y == call'.ret[1]
              IN  /\ objs'[y].mnemonic = objs[x].mnemonic
                  /\ objs'[y].typeParams = objs[x].typeParams
                  /\ Get(Store', y, "uses") = Get(Store, x, "uses")
                  /\ Get(Store', y, "targets") = Get(Store, x, "targets")
                  /\ objs'[y].outName = objs[x].outName
                  /\ objs'[y].parentBlock = NullArg
                  /\ Get(Store', y, "dests") = <<>>]_vars

\* C27: replDest(oldDest, newDest) replaces every occurrence of oldDest in
\* dests by newDest and leaves the other entries unchanged; when oldDest is
\* absent dests is unchanged
C27_ReplDestReplaces ==
    [][call'.name = "replDest" =>
          LET d == Get(Store, call'.self, "dests")
          IN  /\ call'.ok
              /\ Get(Store', call'.self, "dests") =
                    [k \in 1..Len(d) |->
                        IF d[k] = call'.args[1] THEN call'.args[2] ELSE d[k]]]_vars

\* C29: setContTarget and setThrowTarget terminate for every argument
\* (block, null, undefined) and every prior state of targets
C29_SettersReturn == (call.pc = "test") ~> (call.pc = "done")

\* C30: distinct instructions never share a mutable list: a call on an
\* instruction x (a constructor or copy() making x, or addDest, remDest,
\* replUse, setContTarget, setThrowTarget on x) leaves the contents of
\* y.dests, y.uses and y.targets unchanged for every other instruction y
C30_NoSharedList ==
    [][\A y \in Objs :
          y # call'.self =>
              \A f \in {"dests", "uses", "targets"} :
                  Get(Store', y, f) = Get(Store, y, f)]_vars

\* an instruction has been given a destination while another one with the
\* same prototype object has none
C30_Witness ==
    \E x \in Objs, y \in Objs :
        /\ x # y
        /\ ProtoOf(objs[x].kind) = ProtoOf(objs[y].kind)
        /\ call.name = "addDest"
        /\ call.self = x
        /\ Get(Store, x, "dests") # <<>>
        /\ Get(Store, y, "dests") = <<>>
        /\ objs[y].dests = Inherited(ProtoOf(objs[x].kind))

====
